---- MODULE Spec2Model ----
(***************************************************************************)
(* A model of app.py, the DraftKings betting-splits scraper: the parser    *)
(* (parse_game / parse_market / parse_bet), the paginating scrape run      *)
(* (scrape_betting_splits) and the cache manager (get_cached_or_fresh_data *)
(* and the /refresh-cache route) as run by concurrent request threads.     *)
(*                                                                         *)
(* Text is modelled as a sequence of one-character strings, so that        *)
(* strip, split, replace, isdigit and float are computed as Python         *)
(* computes them.  An optional value (Python's None, or a missing element  *)
(* of the document) is a sequence of length at most one.                   *)
(***************************************************************************)
EXTENDS Integers, Sequences, FiniteSets, TLC

None == <<>>
Some(x) == <<x>>

(***************************************************************************)
(* Python string operations on text.                                       *)
(***************************************************************************)
Digits == {"0", "1", "2", "3", "4", "5", "6", "7", "8", "9"}

DigitVal(c) ==
    CASE c = "0" -> 0 [] c = "1" -> 1 [] c = "2" -> 2 [] c = "3" -> 3
      [] c = "4" -> 4 [] c = "5" -> 5 [] c = "6" -> 6 [] c = "7" -> 7
      [] c = "8" -> 8 [] c = "9" -> 9

RECURSIVE lstrip(_)
lstrip(s) == IF s # <<>> /\ Head(s) = " " THEN lstrip(Tail(s)) ELSE s

RECURSIVE rstrip(_)
rstrip(s) ==
    IF s # <<>> /\ s[Len(s)] = " " THEN rstrip(SubSeq(s, 1, Len(s) - 1)) ELSE s

\* str.strip()
strip(s) == rstrip(lstrip(s))

startswith(s, sep) == Len(s) >= Len(sep) /\ SubSeq(s, 1, Len(sep)) = sep

\* sep in s
contains(s, sep) ==
    \E i \in 1..(Len(s) - Len(sep) + 1) : SubSeq(s, i, i + Len(sep) - 1) = sep

RECURSIVE splitFrom(_, _, _)
splitFrom(s, sep, cur) ==
    IF s = <<>> THEN <<cur>>
    ELSE IF startswith(s, sep)
         THEN <<cur>> \o splitFrom(SubSeq(s, Len(sep) + 1, Len(s)), sep, <<>>)
         ELSE splitFrom(Tail(s), sep, Append(cur, Head(s)))

\* str.split(sep): the parts between the non-overlapping occurrences of sep,
\* found left to right
split(s, sep) == splitFrom(s, sep, <<>>)

\* str.replace(c, ''), c one character
remove(s, c) == SelectSeq(s, LAMBDA ch : ch # c)

\* str.isdigit()
isdigit(s) == s # <<>> /\ \A i \in 1..Len(s) : s[i] \in Digits

RECURSIVE int(_)
int(s) == IF s = <<>> THEN 0 ELSE 10 * int(SubSeq(s, 1, Len(s) - 1)) + DigitVal(s[Len(s)])

\* float(s) succeeds: over the characters of the model (digits, space, %,
\* letters, @) Python's float accepts exactly a digit string with optional
\* surrounding whitespace
floatOk(s) == isdigit(strip(s))

float(s) == int(strip(s))

\* The delimiters of a game title
AT == <<" ", "@", " ">>
VS == <<" ", "v", "s", " ">>

ZERO_PCT == <<"0", "%">>

(***************************************************************************)
(* The parser.  A document fragment is a record of the elements the code   *)
(* looks up in it:                                                         *)
(*   bet row      [divs : Seq([class, text]), odd : optional text]         *)
(*   market       [head : optional [div : optional text], sodds : rows]    *)
(*   game         [title_elem : optional [h5, span : optional text],       *)
(*                 wrap : optional Seq(market)]                            *)
(***************************************************************************)

\* a variant of parse_percentage that gives -1 on an exception
parse_percentage_minus(pct_str) ==
    LET t == remove(pct_str, "%")
    IN  IF floatOk(t) THEN float(t) ELSE 0 - 1

\* parse_percentage: float(pct_str.replace('%', '')), 0.0 on any exception
parse_percentage(pct_str) ==
    LET t == remove(pct_str, "%")
    IN  IF floatOk(t) THEN float(t) ELSE 0

\* the test of parse_bet on one div's stripped text
IsPercentageText(text) ==
    contains(text, <<"%">>) /\ isdigit(remove(remove(text, "%"), " "))

\* bet_soup.find('div', class_='tb-slipline'): the first such div
FindSlipline(divs) ==
    LET hits == SelectSeq(divs, LAMBDA d : d.class = "tb-slipline")
    IN  IF hits = <<>> THEN None ELSE Some(hits[1])

\* the stripped texts of all divs of the row that pass the percentage test
Percentages(divs) ==
    SelectSeq([i \in 1..Len(divs) |-> strip(divs[i].text)], IsPercentageText)

\* a variant of ChoosePercentages that takes the two tokens the other way round
ChoosePercentagesSwapped(percentages) ==
    IF Len(percentages) >= 2
    THEN [handle_pct |-> percentages[2], bets_pct |-> percentages[1]]
    ELSE [handle_pct |-> ZERO_PCT, bets_pct |-> ZERO_PCT]

\* lines 270-275: the first two tokens, or "0%" twice
ChoosePercentages(percentages) ==
    IF Len(percentages) >= 2
    THEN [handle_pct |-> percentages[1], bets_pct |-> percentages[2]]
    ELSE [handle_pct |-> ZERO_PCT, bets_pct |-> ZERO_PCT]

parse_bet(bet_soup) ==
    LET team_elem == FindSlipline(bet_soup.divs)
    IN  IF team_elem = None THEN None
        ELSE IF bet_soup.odd = None THEN None
        ELSE LET p == ChoosePercentages(Percentages(bet_soup.divs))
             IN  Some([team       |-> strip(team_elem[1].text),
                       odds       |-> strip(bet_soup.odd[1]),
                       handle_pct |-> p.handle_pct,
                       bets_pct   |-> p.bets_pct])

RECURSIVE ParseBets(_)
ParseBets(rows) ==
    IF rows = <<>> THEN <<>>
    ELSE parse_bet(Head(rows)) \o ParseBets(Tail(rows))

parse_market(market_soup) ==
    IF market_soup.head = None THEN None
    ELSE IF market_soup.head[1].div = None THEN None
    ELSE Some([type |-> strip(market_soup.head[1].div[1]),
               bets |-> ParseBets(market_soup.sodds)])

\* game_data['markets'][type] = bets on an insertion-ordered dict: a label
\* seen before keeps its place and takes the new bets
DictSet(markets, type, bets) ==
    IF \E i \in 1..Len(markets) : markets[i].type = type
    THEN [i \in 1..Len(markets) |->
             IF markets[i].type = type THEN [type |-> type, bets |-> bets]
             ELSE markets[i]]
    ELSE Append(markets, [type |-> type, bets |-> bets])

RECURSIVE ParseMarkets(_, _)
ParseMarkets(containers, markets) ==
    IF containers = <<>> THEN markets
    ELSE LET market_data == parse_market(Head(containers))
         IN  ParseMarkets(Tail(containers),
                 IF market_data = None THEN markets
                 ELSE DictSet(markets, market_data[1].type, market_data[1].bets))

\* a variant of ChooseDelimiter that tests ' vs ' first
ChooseDelimiterVsFirst(title) ==
    IF contains(title, VS) THEN Some(VS)
    ELSE IF contains(title, AT) THEN Some(AT)
    ELSE None

\* the delimiter parse_game splits the title on, if any
ChooseDelimiter(title) ==
    IF contains(title, AT) THEN Some(AT)
    ELSE IF contains(title, VS) THEN Some(VS)
    ELSE None

\* the teams of a title: len(teams) == 2 or no game
SplitTeams(title) ==
    LET delim == ChooseDelimiter(title)
    IN  IF delim = None THEN None
        ELSE LET teams == split(title, delim[1])
             IN  IF Len(teams) = 2 THEN Some(teams) ELSE None

parse_game(game_soup) ==
    IF game_soup.title_elem = None THEN None
    ELSE IF game_soup.title_elem[1].h5 = None THEN None
    ELSE IF game_soup.title_elem[1].span = None THEN None
    ELSE LET title == strip(game_soup.title_elem[1].h5[1])
             time  == strip(game_soup.title_elem[1].span[1])
             teams == SplitTeams(title)
         IN  IF teams = None THEN None
             ELSE IF game_soup.wrap = None THEN None
             ELSE Some([title     |-> title,
                        time      |-> time,
                        away_team |-> strip(teams[1][1]),
                        home_team |-> strip(teams[1][2]),
                        markets   |-> ParseMarkets(game_soup.wrap[1], <<>>)])

(***************************************************************************)
(* The scrape run: scrape_betting_splits.                                  *)
(***************************************************************************)
TODAY == "today"
TOMORROW == "tomorrow"

\* the dict sport_configs, in insertion order
sport_configs ==
    << [name |-> "all_sports",             id |-> 0,     date_ranges |-> <<TODAY, TOMORROW>>],
       [name |-> "mlb",                    id |-> 84240, date_ranges |-> <<TODAY, TOMORROW>>],
       [name |-> "wnba",                   id |-> 94682, date_ranges |-> <<TODAY, TOMORROW>>],
       [name |-> "nba",                    id |-> 42648, date_ranges |-> <<TODAY, TOMORROW>>],
       [name |-> "nhl",                    id |-> 42133, date_ranges |-> <<TODAY, TOMORROW>>],
       [name |-> "mls",                    id |-> 89345, date_ranges |-> <<TODAY>>],
       [name |-> "ufc",                    id |-> 9034,  date_ranges |-> <<TODAY, TOMORROW>>],
       [name |-> "nfl",                    id |-> 88808, date_ranges |-> <<TODAY, TOMORROW>>],
       [name |-> "ncaaf",                  id |-> 87637, date_ranges |-> <<TODAY, TOMORROW>>],
       [name |-> "ncaa_basketball",        id |-> 92483, date_ranges |-> <<TODAY, TOMORROW>>],
       [name |-> "ncaa_womens_basketball", id |-> 36647, date_ranges |-> <<TODAY, TOMORROW>>],
       [name |-> "ncaa_baseball",          id |-> 41151, date_ranges |-> <<TODAY, TOMORROW>>],
       [name |-> "ncaa_ice_hockey",        id |-> 84813, date_ranges |-> <<TODAY, TOMORROW>>],
       [name |-> "premier_league",         id |-> 40253, date_ranges |-> <<TODAY>>],
       [name |-> "champions_league",       id |-> 40685, date_ranges |-> <<TODAY>>],
       [name |-> "europa_league",          id |-> 41410, date_ranges |-> <<TODAY>>] >>

\* the page cap of the pagination loop: if page > 20: break
MAX_PAGE == 20

\* a variant of PairsOf that does not skip the all_sports entry
RECURSIVE PairsOfAll(_)
PairsOfAll(configs) ==
    IF configs = <<>> THEN <<>>
    ELSE LET config == Head(configs)
         IN  [i \in 1..Len(config.date_ranges) |->
                 [sport_name |-> config.name, sport_id |-> config.id,
                  date_range |-> config.date_ranges[i]]]
             \o PairsOfAll(Tail(configs))

\* the (sport, date_range) pairs in the order the two for loops visit them:
\* the all_sports entry is skipped, each other sport gives its date_ranges
RECURSIVE PairsOf(_)
PairsOf(configs) ==
    IF configs = <<>> THEN <<>>
    ELSE LET config == Head(configs)
         IN  (IF config.name = "all_sports" THEN <<>>
              ELSE [i \in 1..Len(config.date_ranges) |->
                       [sport_name |-> config.name, sport_id |-> config.id,
                        date_range |-> config.date_ranges[i]]])
             \o PairsOf(Tail(configs))

Pairs == PairsOf(sport_configs)

\* game_data['scraped_date_range'] = date_range
WithDateRange(game_data, date_range) ==
    [title              |-> game_data.title,
     time               |-> game_data.time,
     away_team          |-> game_data.away_team,
     home_team          |-> game_data.home_team,
     markets            |-> game_data.markets,
     scraped_date_range |-> date_range]

GameKey(g) == <<g.title, g.time, g.scraped_date_range>>

\* a variant of IsDuplicate that looks at the game last accumulated only
IsDuplicateOfLast(all_games, game_data) ==
    /\ all_games # <<>>
    /\ GameKey(all_games[Len(all_games)]) = GameKey(game_data)

\* duplicate = any(existing has the title, time and date range of game_data
\*                 for existing in all_games_data)
IsDuplicate(all_games, game_data) ==
    \E i \in 1..Len(all_games) :
        /\ all_games[i].title = game_data.title
        /\ all_games[i].time = game_data.time
        /\ all_games[i].scraped_date_range = game_data.scraped_date_range

\* for game in games: parse, tag with the date range, append when new.
\* acc = [all_games_data, page_games]
RECURSIVE ProcessGames(_, _, _)
ProcessGames(games, date_range, acc) ==
    IF games = <<>> THEN acc
    ELSE LET parsed == parse_game(Head(games))
         IN  IF parsed = None
             THEN ProcessGames(Tail(games), date_range, acc)
             ELSE LET game_data == WithDateRange(parsed[1], date_range)
                  IN  IF IsDuplicate(acc.all_games_data, game_data)
                      THEN ProcessGames(Tail(games), date_range, acc)
                      ELSE ProcessGames(Tail(games), date_range,
                               [all_games_data |-> Append(acc.all_games_data, game_data),
                                page_games     |-> Append(acc.page_games, game_data)])

\* where the loops stand after a break of the while loop: the next pair, page 1
BreakWhile(pair_idx, all_games) ==
    [pair |-> pair_idx + 1, page |-> 1, all_games_data |-> all_games]

\* a variant of NextPage whose cap stops one page early
NextPageEarly(pair_idx, pg, all_games) ==
    IF pg + 1 >= MAX_PAGE THEN BreakWhile(pair_idx, all_games)
    ELSE [pair |-> pair_idx, page |-> pg + 1, all_games_data |-> all_games]

\* page += 1; if page > 20: break
NextPage(pair_idx, pg, all_games) ==
    IF pg + 1 > MAX_PAGE THEN BreakWhile(pair_idx, all_games)
    ELSE [pair |-> pair_idx, page |-> pg + 1, all_games_data |-> all_games]

\* a variant of OnFetchError that ends the whole run
AbortRun(pair_idx, pg, all_games) ==
    [pair |-> Len(Pairs) + 1, page |-> 1, all_games_data |-> all_games]

\* except Exception: print, break
OnFetchError(pair_idx, pg, all_games) == BreakWhile(pair_idx, all_games)

\* one pass of the while loop for the request of page pg of pair pair_idx,
\* answered by response = [ok, games]: ok is FALSE when requests.get or
\* raise_for_status raised, games are the div.tb-se fragments of the document
Iteration(pair_idx, pg, all_games, response) ==
    IF ~response.ok THEN OnFetchError(pair_idx, pg, all_games)
    ELSE IF response.games = <<>> THEN BreakWhile(pair_idx, all_games)
    ELSE LET acc == ProcessGames(response.games, Pairs[pair_idx].date_range,
                        [all_games_data |-> all_games, page_games |-> <<>>])
         IN  IF acc.page_games = <<>> THEN BreakWhile(pair_idx, acc.all_games_data)
             ELSE NextPage(pair_idx, pg, acc.all_games_data)

\* the whole run against a source that answers request (pair, page) with
\* source[pair, page]: the value scrape_betting_splits returns
RECURSIVE RunFrom(_, _, _, _)
RunFrom(pair_idx, pg, all_games, source) ==
    IF pair_idx > Len(Pairs) THEN all_games
    ELSE LET st == Iteration(pair_idx, pg, all_games, source[pair_idx, pg])
         IN  RunFrom(st.pair, st.page, st.all_games_data, source)

(***************************************************************************)
(* The source documents of the scrape model.                               *)
(***************************************************************************)
Text(p) ==
    IF p < 10 THEN <<CHOOSE c \in Digits : DigitVal(c) = p>>
    ELSE <<CHOOSE c \in Digits : DigitVal(c) = p \div 10,
           CHOOSE c \in Digits : DigitVal(c) = p % 10>>

Div(class, text) == [class |-> class, text |-> text]

\* a bet row with a label, odds and the two percentage texts h and b
BetRow(label, odds, h, b) ==
    [divs |-> <<Div("tb-slipline", label), Div("", h), Div("", b)>>,
     odd  |-> Some(odds)]

Market(label, rows) == [head |-> Some([div |-> Some(label)]), sodds |-> rows]

GameSoup(title, time, containers) ==
    [title_elem |-> Some([h5 |-> Some(title), span |-> Some(time)]),
     wrap       |-> Some(containers)]

\* the game the source lists on page p: "<p> @ b" at 7; the game of page 1
\* has one market with one bet, the others none
NumberedGame(p) ==
    GameSoup(Text(p) \o AT \o <<"b">>, <<"7">>,
             IF p = 1
             THEN <<Market(<<"M">>, <<BetRow(<<"b">>, <<"+", "2", "5", "0">>,
                                             <<"6", "5", "%">>, <<"2", "0", "%">>)>>)>>
             ELSE <<>>)

\* a fragment whose title has no delimiter: parse_game gives None
BadGame == GameSoup(<<"x">>, <<"7">>, <<>>)

\* the documents the source may answer a request for page p with
PageChoices(p) ==
    { <<>>,
      <<BadGame>>,
      <<NumberedGame(p)>>,
      <<NumberedGame(p), BadGame, NumberedGame(p)>> }

(***************************************************************************)
(* The state.                                                              *)
(*                                                                         *)
(* One scrape run, step by step: the next request is page `page` of        *)
(* Pairs[pair]; last_fetch records the request last made (its pair, page   *)
(* and response, and the number of games accumulated before it).           *)
(*                                                                         *)
(* The cache manager: the globals cached_games_data and cache_timestamp,   *)
(* and the request threads that run get_cached_or_fresh_data and the       *)
(* /refresh-cache route one statement at a time.  pc[t] is the line thread *)
(* t is about to run; time is in seconds.                                  *)
(***************************************************************************)
VARIABLES
    pair, page,         \* the loops of the scrape run: the next request
    all_games_data,     \* the local list of the run
    last_fetch,         \* the request last made, if any
    returned,           \* the value the run returned, if it has
    cached_games_data,  \* the global list of games
    cache_timestamp,    \* the global timestamp, None or Some(seconds)
    now,                \* datetime.now()
    pc,                 \* per thread: the statement it is about to run
    kind,               \* per thread: the request it serves, "get" or "refresh"
    fresh_data,         \* per thread: the local fresh_data
    ret,                \* per thread: how its last call of
                        \* get_cached_or_fresh_data ended, and what it returned
    call,               \* per thread, for its current or last call: the globals
                        \* at its start, the clock its expiry check read, and
                        \* whether it ran the scrape (kept when requests are
                        \* served one at a time)
    installed,          \* the <<games, timestamp>> last installed in full
    arg, result         \* a function applied on its own: its argument, and
                        \* its result once it is computed

scrapeVars == <<pair, page, all_games_data, last_fetch, returned>>

cacheVars ==
    <<cached_games_data, cache_timestamp, now, pc, kind, fresh_data, ret, call,
      installed>>

pureVars == <<arg, result>>

vars == <<scrapeVars, cacheVars, pureVars>>

\* what the steps of a scrape run, of a request, of a single function leave
\* alone
notScrape == <<cacheVars, pureVars>>
notCache == <<scrapeVars, pureVars>>
notPure == <<scrapeVars, cacheVars>>

(***************************************************************************)
(* One scrape run.                                                         *)
(***************************************************************************)
ScrapeInit ==
    /\ pair = 1
    /\ page = 1
    /\ all_games_data = <<>>
    /\ last_fetch = None
    /\ returned = None

\* one request and the pass of the while loop that handles its response
Fetch(response) ==
    /\ returned = None
    /\ pair <= Len(Pairs)
    /\ LET st == Iteration(pair, page, all_games_data, response)
       IN  /\ pair' = st.pair
           /\ page' = st.page
           /\ all_games_data' = st.all_games_data
    /\ last_fetch' = Some([pair |-> pair, page |-> page, response |-> response,
                           before |-> Len(all_games_data)])
    /\ UNCHANGED <<returned, notScrape>>

\* requests.get or raise_for_status raises
FetchError == Fetch([ok |-> FALSE, games |-> <<>>])

\* the source answers with a document
FetchPage == \E games \in PageChoices(page) : Fetch([ok |-> TRUE, games |-> games])

\* return all_games_data, after the last pair
ScrapeReturn ==
    /\ returned = None
    /\ pair > Len(Pairs)
    /\ returned' = Some(all_games_data)
    /\ UNCHANGED <<pair, page, all_games_data, last_fetch, notScrape>>

(***************************************************************************)
(* The cache manager.                                                      *)
(***************************************************************************)
CACHE_DURATION_MINUTES == 30

\* timedelta(minutes=CACHE_DURATION_MINUTES), in seconds
CACHE_DURATION == CACHE_DURATION_MINUTES * 60

\* a variant of is_cache_expired that expires at the duration itself
is_cache_expired_at(timestamp, clock) ==
    IF timestamp = None THEN TRUE
    ELSE clock - timestamp[1] >= CACHE_DURATION

\* is_cache_expired with cache_timestamp = timestamp and datetime.now() = clock
is_cache_expired(timestamp, clock) ==
    IF timestamp = None THEN TRUE
    ELSE clock - timestamp[1] > CACHE_DURATION

Threads == {"t1", "t2"}

\* the clock readings of the model: up to MaxHalfHours cache durations and
\* MaxSeconds seconds after the start
MaxHalfHours == 2
MaxSeconds == 1
Instants ==
    {h * CACHE_DURATION + sec : h \in 0..MaxHalfHours, sec \in 0..MaxSeconds}

\* three behaviours of the source over a whole run: every request fails;
\* only page 1 of the first pair lists a game; pages 1 and 2 of it do
SourceDown ==
    [p \in 1..Len(Pairs), g \in 1..MAX_PAGE |-> [ok |-> FALSE, games |-> <<>>]]
SourceOne ==
    [p \in 1..Len(Pairs), g \in 1..MAX_PAGE |->
        [ok |-> TRUE, games |-> IF p = 1 /\ g = 1 THEN <<NumberedGame(g)>> ELSE <<>>]]
SourceTwo ==
    [p \in 1..Len(Pairs), g \in 1..MAX_PAGE |->
        [ok |-> TRUE, games |-> IF p = 1 /\ g <= 2 THEN <<NumberedGame(g)>> ELSE <<>>]]
Sources == {SourceDown, SourceOne, SourceTwo}

\* scrape_betting_splits() against one behaviour of the source
scrape_betting_splits(source) == RunFrom(1, 1, <<>>, source)

\* the lists the run returns against these behaviours
ScrapeResults == {scrape_betting_splits(source) : source \in Sources}

NoReturn == [status |-> "none", games |-> <<>>]
NoCall == [games |-> <<>>, timestamp |-> None, clock |-> 0, scraped |-> FALSE]

\* the request threads before any request
ThreadsIdle ==
    /\ pc = [t \in Threads |-> "idle"]
    /\ kind = [t \in Threads |-> "none"]
    /\ fresh_data = [t \in Threads |-> <<>>]
    /\ ret = [t \in Threads |-> NoReturn]
    /\ call = [t \in Threads |-> NoCall]

\* the module as imported by a server (lines 18-19: no snapshot), or run as
\* a script (lines 819-823: one scrape installed before the server starts)
CacheInit ==
    /\ now = 0
    /\ \/ cached_games_data = <<>> /\ cache_timestamp = None
       \/ cached_games_data \in ScrapeResults /\ cache_timestamp = Some(0)
    /\ installed = <<cached_games_data, cache_timestamp>>
    /\ ThreadsIdle

\* time passes
Tick ==
    /\ \E i \in Instants : i > now /\ now' = i
    /\ UNCHANGED <<cached_games_data, cache_timestamp, pc, kind, fresh_data,
                   ret, call, installed, notCache>>

Goto(t, label) == pc' = [pc EXCEPT ![t] = label]

\* the record of a request that starts now, kept when track
Enter(t, track) ==
    call' = IF track
            THEN [call EXCEPT ![t] = [games |-> cached_games_data',
                                      timestamp |-> cache_timestamp',
                                      clock |-> now, scraped |-> FALSE]]
            ELSE call

\* a route that calls get_cached_or_fresh_data (/all, /mlb, the analytics)
StartGet(t, track) ==
    /\ pc[t] = "idle"
    /\ Goto(t, "L36")
    /\ kind' = [kind EXCEPT ![t] = "get"]
    /\ ret' = [ret EXCEPT ![t] = NoReturn]
    /\ UNCHANGED <<cached_games_data, cache_timestamp, now, fresh_data,
                   installed, notCache>>
    /\ Enter(t, track)

\* the /refresh-cache route
StartRefresh(t, track) ==
    /\ pc[t] = "idle"
    /\ Goto(t, "L642")
    /\ kind' = [kind EXCEPT ![t] = "refresh"]
    /\ ret' = [ret EXCEPT ![t] = NoReturn]
    /\ UNCHANGED <<cached_games_data, cache_timestamp, now, fresh_data,
                   installed, notCache>>
    /\ Enter(t, track)

\* line 642: cached_games_data = []
L642(t) ==
    /\ pc[t] = "L642"
    /\ cached_games_data' = <<>>
    /\ Goto(t, "L643")
    /\ UNCHANGED <<cache_timestamp, now, kind, fresh_data, ret, call,
                   installed, notCache>>

\* line 643: cache_timestamp = None; line 644 then calls
\* get_cached_or_fresh_data
L643(t) ==
    /\ pc[t] = "L643"
    /\ cache_timestamp' = None
    /\ Goto(t, "L36")
    /\ UNCHANGED <<cached_games_data, now, kind, fresh_data, ret, call,
                   installed, notCache>>

\* a variant of L36 without the test of the list
L36Always(t) ==
    /\ pc[t] = "L36"
    /\ Goto(t, "L25")
    /\ UNCHANGED <<cached_games_data, cache_timestamp, now, kind, fresh_data,
                   ret, call, installed, notCache>>

\* line 36, left operand: if cached_games_data and ...
L36(t) ==
    /\ pc[t] = "L36"
    /\ Goto(t, IF cached_games_data # <<>> THEN "L25" ELSE "L41")
    /\ UNCHANGED <<cached_games_data, cache_timestamp, now, kind, fresh_data,
                   ret, call, installed, notCache>>

\* line 25 of is_cache_expired: if cache_timestamp is None: return True
L25(t) ==
    /\ pc[t] = "L25"
    /\ Goto(t, IF cache_timestamp = None THEN "L41" ELSE "L29")
    /\ UNCHANGED <<cached_games_data, cache_timestamp, now, kind, fresh_data,
                   ret, call, installed, notCache>>

\* a statement that subtracts cache_timestamp raises TypeError when it is
\* None: the call ends with the exception
Raise(t) ==
    /\ Goto(t, "idle")
    /\ ret' = [ret EXCEPT ![t] = [status |-> "TypeError", games |-> <<>>]]

\* lines 28-30: cache_age = now - cache_timestamp, compared with the duration
L29(t, track) ==
    /\ pc[t] = "L29"
    /\ IF cache_timestamp = None
       THEN Raise(t) /\ UNCHANGED call
       ELSE /\ Goto(t, IF is_cache_expired(cache_timestamp, now)
                       THEN "L41" ELSE "L37")
            /\ call' = IF track THEN [call EXCEPT ![t].clock = now] ELSE call
            /\ UNCHANGED ret
    /\ UNCHANGED <<cached_games_data, cache_timestamp, now, kind, fresh_data,
                   installed, notCache>>

\* line 37: the age printed is datetime.now() - cache_timestamp
L37(t) ==
    /\ pc[t] = "L37"
    /\ IF cache_timestamp = None
       THEN Raise(t)
       ELSE Goto(t, "L38") /\ UNCHANGED ret
    /\ UNCHANGED <<cached_games_data, cache_timestamp, now, kind, fresh_data,
                   call, installed, notCache>>

\* line 38: return cached_games_data
L38(t) ==
    /\ pc[t] = "L38"
    /\ Goto(t, "idle")
    /\ ret' = [ret EXCEPT ![t] = [status |-> "cached", games |-> cached_games_data]]
    /\ UNCHANGED <<cached_games_data, cache_timestamp, now, kind, fresh_data,
                   call, installed, notCache>>

\* line 41: fresh_data = scrape_betting_splits().  The run touches no
\* global, so it is one step, taken at any moment of the call
L41(t, track) ==
    /\ pc[t] = "L41"
    /\ \E games \in ScrapeResults :
          fresh_data' = [fresh_data EXCEPT ![t] = games]
    /\ call' = IF track THEN [call EXCEPT ![t].scraped = TRUE] ELSE call
    /\ Goto(t, "L42")
    /\ UNCHANGED <<cached_games_data, cache_timestamp, now, kind, ret,
                   installed, notCache>>

\* a variant of Stored that keeps the previous games when the run gave none
StoredUnlessEmpty(fresh, cached) == IF fresh = <<>> THEN cached ELSE fresh

\* what line 42 stores in the global: cached_games_data = fresh_data
Stored(fresh, cached) == fresh

L42(t) ==
    /\ pc[t] = "L42"
    /\ cached_games_data' = Stored(fresh_data[t], cached_games_data)
    /\ Goto(t, "L43")
    /\ UNCHANGED <<cache_timestamp, now, kind, fresh_data, ret, call,
                   installed, notCache>>

\* line 43: cache_timestamp = datetime.now()
L43(t) ==
    /\ pc[t] = "L43"
    /\ cache_timestamp' = Some(now)
    /\ installed' = <<fresh_data[t], Some(now)>>
    /\ Goto(t, "L44")
    /\ UNCHANGED <<cached_games_data, now, kind, fresh_data, ret, call,
                   notCache>>

\* line 44: return fresh_data; the local is gone with the call
L44(t) ==
    /\ pc[t] = "L44"
    /\ Goto(t, "idle")
    /\ ret' = [ret EXCEPT ![t] = [status |-> "fresh", games |-> fresh_data[t]]]
    /\ fresh_data' = [fresh_data EXCEPT ![t] = <<>>]
    /\ UNCHANGED <<cached_games_data, cache_timestamp, now, kind, call,
                   installed, notCache>>

Request(t, track) ==
    \/ StartGet(t, track) \/ StartRefresh(t, track)
    \/ L642(t) \/ L643(t)
    \/ L36(t) \/ L25(t) \/ L29(t, track) \/ L37(t) \/ L38(t)
    \/ L41(t, track) \/ L42(t) \/ L43(t) \/ L44(t)

(***************************************************************************)
(* A function applied on its own to one argument: is_cache_expired,        *)
(* parse_game, parse_bet.  arg = [fn, ...] names the function and holds    *)
(* its argument, result is None until the function has been applied.       *)
(***************************************************************************)
\* titles are built of at most MaxChunks of these pieces of text
MaxChunks == 5
Chunks == { <<"a">>, <<"b">>, <<" ">>, <<"@">>, AT, VS }

RECURSIVE TextsOf(_)
TextsOf(n) ==
    IF n = 0 THEN {<<>>}
    ELSE LET shorter == TextsOf(n - 1)
         IN  shorter \cup {t \o c : t \in shorter, c \in Chunks}

TitleTexts == TextsOf(MaxChunks)

\* a well-formed game fragment but for its title, and fragments that lack an
\* element each
GameSoups ==
    {GameSoup(title, <<"7">>, <<>>) : title \in TitleTexts}
    \cup { [title_elem |-> None, wrap |-> Some(<<>>)],
           [title_elem |-> Some([h5 |-> None, span |-> Some(<<"7">>)]),
            wrap |-> Some(<<>>)],
           [title_elem |-> Some([h5 |-> Some(<<"a">> \o AT \o <<"b">>), span |-> None]),
            wrap |-> Some(<<>>)],
           [title_elem |-> Some([h5 |-> Some(<<"a">> \o AT \o <<"b">>),
                                 span |-> Some(<<"7">>)]),
            wrap |-> None],
           NumberedGame(1) }

\* the divs of a bet row: at most MaxDivs, each the label or not, with one
\* of these texts
MaxDivs == 3
DivTexts ==
    { <<"a">>, <<"6", "5", "%">>, <<" ", "7", "%", " ">>, <<"1", "5", "0", "%">>,
      <<"5", " ", "5", "%">>, <<"x", "%">> }
DivChoices == {Div(class, text) : class \in {"tb-slipline", ""}, text \in DivTexts}

RECURSIVE DivsOf(_)
DivsOf(n) ==
    IF n = 0 THEN {<<>>}
    ELSE LET shorter == DivsOf(n - 1)
         IN  shorter \cup {Append(d, c) : d \in shorter, c \in DivChoices}

BetSoups ==
    {[divs |-> divs, odd |-> odd] :
        divs \in DivsOf(MaxDivs), odd \in {None, Some(<<"+", "2", "5", "0">>)}}

\* what the source answers a request with: an error, or a document with
\* none, one or both of two games
PageAnswers ==
    { [ok |-> FALSE, games |-> <<>>],
      [ok |-> TRUE, games |-> <<>>],
      [ok |-> TRUE, games |-> <<NumberedGame(1)>>],
      [ok |-> TRUE, games |-> <<NumberedGame(2)>>],
      [ok |-> TRUE, games |-> <<NumberedGame(1), NumberedGame(2)>>] }

\* the behaviours of the source over a whole run: any of these answers for
\* the first MaxListedPages pages of the first and of the third pair (mlb
\* and wnba, both for today), no fragment anywhere else
MaxListedPages == 2
ListedPairs == {1, 3}
Listings == [ListedPairs \X (1..MaxListedPages) -> PageAnswers]

SourceOf(listed) ==
    [p \in 1..Len(Pairs), g \in 1..MAX_PAGE |->
        IF p \in ListedPairs /\ g <= MaxListedPages THEN listed[p, g]
        ELSE [ok |-> TRUE, games |-> <<>>]]

\* timestamps up to MaxSeconds, read at every age up to MaxSeconds past the
\* cache duration
ExpiryChecks ==
    {[timestamp |-> None, clock |-> c] : c \in 0..MaxSeconds}
    \cup {[timestamp |-> Some(s), clock |-> s + age] :
            s \in 0..MaxSeconds, age \in 0..(CACHE_DURATION + MaxSeconds)}

PureInit ==
    /\ result = None
    /\ \/ \E c \in ExpiryChecks :
             arg = [fn |-> "is_cache_expired", timestamp |-> c.timestamp,
                    clock |-> c.clock]
       \/ \E soup \in GameSoups : arg = [fn |-> "parse_game", soup |-> soup]
       \/ \E soup \in BetSoups : arg = [fn |-> "parse_bet", soup |-> soup]
       \/ \E listed \in Listings :
             arg = [fn |-> "scrape_betting_splits", listed |-> listed]

PureIdle == arg = [fn |-> "none"] /\ result = Some(TRUE)

CheckExpired ==
    /\ result = None
    /\ arg.fn = "is_cache_expired"
    /\ result' = Some(is_cache_expired(arg.timestamp, arg.clock))
    /\ UNCHANGED <<arg, notPure>>

ParseGame ==
    /\ result = None
    /\ arg.fn = "parse_game"
    /\ result' = Some(parse_game(arg.soup))
    /\ UNCHANGED <<arg, notPure>>

ParseBet ==
    /\ result = None
    /\ arg.fn = "parse_bet"
    /\ result' = Some(parse_bet(arg.soup))
    /\ UNCHANGED <<arg, notPure>>

\* one whole run of the scraper against a behaviour of the source
ScrapeRun ==
    /\ result = None
    /\ arg.fn = "scrape_betting_splits"
    /\ result' = Some(scrape_betting_splits(SourceOf(arg.listed)))
    /\ UNCHANGED <<arg, notPure>>

(***************************************************************************)
(* The analytics.  A dict is a record; the games handed to an analytics    *)
(* function are the objects of the cached list, so a bet dict the function *)
(* works on is either a new object or the stored bet at a place            *)
(* <<game, market, bet>> of the list: cell is None or Some(place).         *)
(***************************************************************************)
\* d[k] = v on a dict
SetItem(d, k, v) == [f \in DOMAIN d \cup {k} |-> IF f = k THEN v ELSE d[f]]

\* the three characters (U+00E2 U+02C6 U+2019) that parse_odds replaces by '-'
MINUS_MOJIBAKE == <<"U+00E2", "U+02C6", "U+2019">>

\* str.replace(old, new)
RECURSIVE replace(_, _, _)
replace(s, old, new) ==
    IF s = <<>> THEN <<>>
    ELSE IF startswith(s, old)
         THEN new \o replace(SubSeq(s, Len(old) + 1, Len(s)), old, new)
         ELSE <<Head(s)>> \o replace(Tail(s), old, new)

\* int(s) succeeds: optional whitespace around an optional sign and digits
intOk(s) ==
    LET t == strip(s)
    IN  /\ t # <<>>
        /\ IF Head(t) \in {"+", "-"} THEN isdigit(Tail(t)) ELSE isdigit(t)

signedInt(s) ==
    LET t == strip(s)
    IN  IF Head(t) = "-" THEN 0 - int(Tail(t))
        ELSE IF Head(t) = "+" THEN int(Tail(t))
        ELSE int(t)

\* a variant of parse_odds that reads the digits and drops the sign test
parse_odds_digits(odds_str) ==
    LET digits == SelectSeq(odds_str, LAMBDA c : c \in Digits)
    IN  IF digits = <<>> THEN 0 ELSE int(digits)

\* parse_odds: int(odds_str.replace(those characters, '-')), 0 on any exception
parse_odds(odds_str) ==
    LET t == replace(odds_str, MINUS_MOJIBAKE, <<"-">>)
    IN  IF intOk(t) THEN signedInt(t) ELSE 0

\* a new dict {**bet, 'game_title': ..., ..., 'market_type': ...}
WithContext(bet, game, market_type) ==
    [team        |-> bet.team,
     odds        |-> bet.odds,
     handle_pct  |-> bet.handle_pct,
     bets_pct    |-> bet.bets_pct,
     game_title  |-> game.title,
     game_time   |-> game.time,
     away_team   |-> game.away_team,
     home_team   |-> game.home_team,
     market_type |-> market_type]

\* the places of the bets of the game at index g, markets and bets in order
RECURSIVE PlacesFrom(_, _, _, _)
PlacesFrom(games, g, m, b) ==
    IF g > Len(games) THEN <<>>
    ELSE IF m > Len(games[g].markets) THEN PlacesFrom(games, g + 1, 1, 1)
    ELSE IF b > Len(games[g].markets[m].bets) THEN PlacesFrom(games, g, m + 1, 1)
    ELSE <<(<<g, m, b>>)>> \o PlacesFrom(games, g, m, b + 1)

\* a variant of extract_all_bets that adds the context to the stored bet
\* itself
extract_all_bets_in_place(games) ==
    LET places == PlacesFrom(games, 1, 1, 1)
    IN  [i \in 1..Len(places) |->
            LET g == places[i][1]
                m == places[i][2]
                b == places[i][3]
            IN  [cell |-> Some(places[i]),
                 dict |-> WithContext(games[g].markets[m].bets[b], games[g],
                                      games[g].markets[m].type)]]

\* extract_all_bets: one new dict per bet, in the order of the games, of the
\* markets of a game and of the bets of a market
extract_all_bets(games) ==
    LET places == PlacesFrom(games, 1, 1, 1)
    IN  [i \in 1..Len(places) |->
            LET g == places[i][1]
                m == places[i][2]
                b == places[i][3]
            IN  [cell |-> None,
                 dict |-> WithContext(games[g].markets[m].bets[b], games[g],
                                      games[g].markets[m].type)]]

\* sorted(..., reverse=True) is stable: x goes after the items whose key is
\* not less than its own.  An item is [key, bet].
RECURSIVE InsertDesc(_, _)
InsertDesc(sorted, x) ==
    IF sorted = <<>> THEN <<x>>
    ELSE IF Head(sorted).key >= x.key
         THEN <<Head(sorted)>> \o InsertDesc(Tail(sorted), x)
         ELSE <<x>> \o sorted

RECURSIVE SortDesc(_, _)
SortDesc(items, sorted) ==
    IF items = <<>> THEN sorted
    ELSE SortDesc(Tail(items), InsertDesc(sorted, Head(items)))

\* sorted(bets, key=..., reverse=True) for bets given with their keys
sorted_reverse(items) ==
    LET s == SortDesc(items, <<>>) IN [i \in 1..Len(s) |-> s[i].bet]

\* a variant of Limit that keeps one more
LimitPlusOne(bets, limit) == SubSeq(bets, 1, IF Len(bets) < limit + 1 THEN Len(bets) ELSE limit + 1)

\* bets[:limit]
Limit(bets, limit) == SubSeq(bets, 1, IF Len(bets) < limit THEN Len(bets) ELSE limit)

\* limit=7
DEFAULT_LIMIT == 7

\* str.upper() over the letters of the model's text
UpperChar(c) ==
    IF c \in {"a", "b", "c", "d", "e", "f", "g", "h", "i", "j", "k", "l", "m"}
    THEN (CASE c = "a" -> "A" [] c = "b" -> "B" [] c = "c" -> "C"
            [] c = "d" -> "D" [] c = "e" -> "E" [] c = "f" -> "F"
            [] c = "g" -> "G" [] c = "h" -> "H" [] c = "i" -> "I"
            [] c = "j" -> "J" [] c = "k" -> "K" [] c = "l" -> "L"
            [] c = "m" -> "M")
    ELSE IF c \in {"n", "o", "p", "q", "r", "s", "t", "u", "v", "w", "x", "y", "z"}
    THEN (CASE c = "n" -> "N" [] c = "o" -> "O" [] c = "p" -> "P"
            [] c = "q" -> "Q" [] c = "r" -> "R" [] c = "s" -> "S"
            [] c = "t" -> "T" [] c = "u" -> "U" [] c = "v" -> "V"
            [] c = "w" -> "W" [] c = "x" -> "X" [] c = "y" -> "Y"
            [] c = "z" -> "Z")
    ELSE c

upper(s) == [i \in 1..Len(s) |-> UpperChar(s[i])]

\* the list mlb_teams of filter_mlb_games
mlb_teams ==
    << <<"A", "n", "g", "e", "l", "s">>,
       <<"A", "s", "t", "r", "o", "s">>,
       <<"A", "t", "h", "l", "e", "t", "i", "c", "s">>,
       <<"B", "l", "u", "e", " ", "J", "a", "y", "s">>,
       <<"B", "r", "a", "v", "e", "s">>,
       <<"B", "r", "e", "w", "e", "r", "s">>,
       <<"C", "a", "r", "d", "i", "n", "a", "l", "s">>,
       <<"C", "u", "b", "s">>,
       <<"D", "i", "a", "m", "o", "n", "d", "b", "a", "c", "k", "s">>,
       <<"D", "o", "d", "g", "e", "r", "s">>,
       <<"G", "i", "a", "n", "t", "s">>,
       <<"G", "u", "a", "r", "d", "i", "a", "n", "s">>,
       <<"I", "n", "d", "i", "a", "n", "s">>,
       <<"M", "a", "r", "i", "n", "e", "r", "s">>,
       <<"M", "a", "r", "l", "i", "n", "s">>,
       <<"M", "e", "t", "s">>,
       <<"N", "a", "t", "i", "o", "n", "a", "l", "s">>,
       <<"O", "r", "i", "o", "l", "e", "s">>,
       <<"P", "a", "d", "r", "e", "s">>,
       <<"P", "h", "i", "l", "l", "i", "e", "s">>,
       <<"P", "i", "r", "a", "t", "e", "s">>,
       <<"R", "a", "n", "g", "e", "r", "s">>,
       <<"R", "a", "y", "s">>,
       <<"R", "e", "d", " ", "S", "o", "x">>,
       <<"R", "e", "d", "s">>,
       <<"R", "o", "c", "k", "i", "e", "s">>,
       <<"R", "o", "y", "a", "l", "s">>,
       <<"T", "i", "g", "e", "r", "s">>,
       <<"T", "w", "i", "n", "s">>,
       <<"W", "h", "i", "t", "e", " ", "S", "o", "x">>,
       <<"Y", "a", "n", "k", "e", "e", "s">>,
       <<"L", "A", "A">>,
       <<"H", "O", "U">>,
       <<"O", "A", "K">>,
       <<"T", "O", "R">>,
       <<"A", "T", "L">>,
       <<"M", "I", "L">>,
       <<"S", "T", "L">>,
       <<"C", "H", "C">>,
       <<"A", "R", "I">>,
       <<"L", "A", "D">>,
       <<"S", "F">>,
       <<"C", "L", "E">>,
       <<"S", "E", "A">>,
       <<"M", "I", "A">>,
       <<"N", "Y", "M">>,
       <<"W", "S", "N">>,
       <<"W", "A", "S">>,
       <<"B", "A", "L">>,
       <<"S", "D">>,
       <<"P", "H", "I">>,
       <<"P", "I", "T">>,
       <<"T", "E", "X">>,
       <<"T", "B">>,
       <<"B", "O", "S">>,
       <<"C", "I", "N">>,
       <<"C", "O", "L">>,
       <<"K", "C">>,
       <<"D", "E", "T">>,
       <<"M", "I", "N">>,
       <<"C", "W", "S">>,
       <<"C", "H", "W">>,
       <<"N", "Y", "Y">>,
       <<"N", "Y">> >>

\* team_lists['mlb'] of filter_games_by_sport
team_list_mlb ==
    << <<"A", "n", "g", "e", "l", "s">>,
       <<"A", "s", "t", "r", "o", "s">>,
       <<"A", "t", "h", "l", "e", "t", "i", "c", "s">>,
       <<"B", "l", "u", "e", " ", "J", "a", "y", "s">>,
       <<"B", "r", "a", "v", "e", "s">>,
       <<"B", "r", "e", "w", "e", "r", "s">>,
       <<"C", "a", "r", "d", "i", "n", "a", "l", "s">>,
       <<"C", "u", "b", "s">>,
       <<"D", "i", "a", "m", "o", "n", "d", "b", "a", "c", "k", "s">>,
       <<"D", "o", "d", "g", "e", "r", "s">>,
       <<"G", "i", "a", "n", "t", "s">>,
       <<"G", "u", "a", "r", "d", "i", "a", "n", "s">>,
       <<"M", "a", "r", "i", "n", "e", "r", "s">>,
       <<"M", "a", "r", "l", "i", "n", "s">>,
       <<"M", "e", "t", "s">>,
       <<"N", "a", "t", "i", "o", "n", "a", "l", "s">>,
       <<"O", "r", "i", "o", "l", "e", "s">>,
       <<"P", "a", "d", "r", "e", "s">>,
       <<"P", "h", "i", "l", "l", "i", "e", "s">>,
       <<"P", "i", "r", "a", "t", "e", "s">>,
       <<"R", "a", "n", "g", "e", "r", "s">>,
       <<"R", "a", "y", "s">>,
       <<"R", "e", "d", " ", "S", "o", "x">>,
       <<"R", "e", "d", "s">>,
       <<"R", "o", "c", "k", "i", "e", "s">>,
       <<"R", "o", "y", "a", "l", "s">>,
       <<"T", "i", "g", "e", "r", "s">>,
       <<"T", "w", "i", "n", "s">>,
       <<"W", "h", "i", "t", "e", " ", "S", "o", "x">>,
       <<"Y", "a", "n", "k", "e", "e", "s">>,
       <<"L", "A", "A">>,
       <<"H", "O", "U">>,
       <<"O", "A", "K">>,
       <<"T", "O", "R">>,
       <<"A", "T", "L">>,
       <<"M", "I", "L">>,
       <<"S", "T", "L">>,
       <<"C", "H", "C">>,
       <<"A", "R", "I">>,
       <<"L", "A", "D">>,
       <<"S", "F">>,
       <<"C", "L", "E">>,
       <<"M", "I", "A">>,
       <<"N", "Y", "M">>,
       <<"W", "S", "N">>,
       <<"W", "A", "S">>,
       <<"B", "A", "L">>,
       <<"S", "D">>,
       <<"P", "H", "I">>,
       <<"P", "I", "T">>,
       <<"T", "E", "X">>,
       <<"T", "B">>,
       <<"B", "O", "S">>,
       <<"C", "I", "N">>,
       <<"C", "O", "L">>,
       <<"K", "C">>,
       <<"D", "E", "T">>,
       <<"M", "I", "N">>,
       <<"C", "W", "S">>,
       <<"C", "H", "W">>,
       <<"N", "Y", "Y">> >>

\* team_lists['nba'] of filter_games_by_sport
team_list_nba ==
    << <<"H", "a", "w", "k", "s">>,
       <<"C", "e", "l", "t", "i", "c", "s">>,
       <<"N", "e", "t", "s">>,
       <<"H", "o", "r", "n", "e", "t", "s">>,
       <<"B", "u", "l", "l", "s">>,
       <<"C", "a", "v", "a", "l", "i", "e", "r", "s">>,
       <<"M", "a", "v", "e", "r", "i", "c", "k", "s">>,
       <<"N", "u", "g", "g", "e", "t", "s">>,
       <<"P", "i", "s", "t", "o", "n", "s">>,
       <<"W", "a", "r", "r", "i", "o", "r", "s">>,
       <<"R", "o", "c", "k", "e", "t", "s">>,
       <<"P", "a", "c", "e", "r", "s">>,
       <<"C", "l", "i", "p", "p", "e", "r", "s">>,
       <<"L", "a", "k", "e", "r", "s">>,
       <<"G", "r", "i", "z", "z", "l", "i", "e", "s">>,
       <<"H", "e", "a", "t">>,
       <<"B", "u", "c", "k", "s">>,
       <<"T", "i", "m", "b", "e", "r", "w", "o", "l", "v", "e", "s">>,
       <<"P", "e", "l", "i", "c", "a", "n", "s">>,
       <<"K", "n", "i", "c", "k", "s">>,
       <<"T", "h", "u", "n", "d", "e", "r">>,
       <<"M", "a", "g", "i", "c">>,
       <<"7", "6", "e", "r", "s">>,
       <<"S", "u", "n", "s">>,
       <<"T", "r", "a", "i", "l", " ", "B", "l", "a", "z", "e", "r", "s">>,
       <<"K", "i", "n", "g", "s">>,
       <<"S", "p", "u", "r", "s">>,
       <<"R", "a", "p", "t", "o", "r", "s">>,
       <<"J", "a", "z", "z">>,
       <<"W", "i", "z", "a", "r", "d", "s">>,
       <<"A", "T", "L">>,
       <<"B", "O", "S">>,
       <<"B", "K", "N">>,
       <<"C", "H", "A">>,
       <<"C", "H", "I">>,
       <<"C", "L", "E">>,
       <<"D", "A", "L">>,
       <<"D", "E", "N">>,
       <<"D", "E", "T">>,
       <<"G", "S", "W">>,
       <<"H", "O", "U">>,
       <<"I", "N", "D">>,
       <<"L", "A", "C">>,
       <<"L", "A", "L">>,
       <<"M", "E", "M">>,
       <<"M", "I", "A">>,
       <<"M", "I", "L">>,
       <<"M", "I", "N">>,
       <<"N", "O", "P">>,
       <<"N", "Y", "K">>,
       <<"O", "K", "C">>,
       <<"O", "R", "L">>,
       <<"P", "H", "I">>,
       <<"P", "H", "X">>,
       <<"P", "O", "R">>,
       <<"S", "A", "C">>,
       <<"S", "A", "S">>,
       <<"T", "O", "R">>,
       <<"U", "T", "A">>,
       <<"W", "A", "S">> >>

\* team_lists['nfl'] of filter_games_by_sport
team_list_nfl ==
    << <<"C", "a", "r", "d", "i", "n", "a", "l", "s">>,
       <<"F", "a", "l", "c", "o", "n", "s">>,
       <<"R", "a", "v", "e", "n", "s">>,
       <<"B", "i", "l", "l", "s">>,
       <<"P", "a", "n", "t", "h", "e", "r", "s">>,
       <<"B", "e", "a", "r", "s">>,
       <<"B", "e", "n", "g", "a", "l", "s">>,
       <<"B", "r", "o", "w", "n", "s">>,
       <<"C", "o", "w", "b", "o", "y", "s">>,
       <<"B", "r", "o", "n", "c", "o", "s">>,
       <<"L", "i", "o", "n", "s">>,
       <<"P", "a", "c", "k", "e", "r", "s">>,
       <<"T", "e", "x", "a", "n", "s">>,
       <<"C", "o", "l", "t", "s">>,
       <<"J", "a", "g", "u", "a", "r", "s">>,
       <<"C", "h", "i", "e", "f", "s">>,
       <<"R", "a", "i", "d", "e", "r", "s">>,
       <<"C", "h", "a", "r", "g", "e", "r", "s">>,
       <<"R", "a", "m", "s">>,
       <<"D", "o", "l", "p", "h", "i", "n", "s">>,
       <<"V", "i", "k", "i", "n", "g", "s">>,
       <<"P", "a", "t", "r", "i", "o", "t", "s">>,
       <<"S", "a", "i", "n", "t", "s">>,
       <<"G", "i", "a", "n", "t", "s">>,
       <<"J", "e", "t", "s">>,
       <<"E", "a", "g", "l", "e", "s">>,
       <<"S", "t", "e", "e", "l", "e", "r", "s">>,
       <<"4", "9", "e", "r", "s">>,
       <<"S", "e", "a", "h", "a", "w", "k", "s">>,
       <<"B", "u", "c", "c", "a", "n", "e", "e", "r", "s">>,
       <<"T", "i", "t", "a", "n", "s">>,
       <<"C", "o", "m", "m", "a", "n", "d", "e", "r", "s">>,
       <<"A", "R", "I">>,
       <<"A", "T", "L">>,
       <<"B", "A", "L">>,
       <<"B", "U", "F">>,
       <<"C", "A", "R">>,
       <<"C", "H", "I">>,
       <<"C", "I", "N">>,
       <<"C", "L", "E">>,
       <<"D", "A", "L">>,
       <<"D", "E", "N">>,
       <<"D", "E", "T">>,
       <<"G", "B">>,
       <<"H", "O", "U">>,
       <<"I", "N", "D">>,
       <<"J", "A", "X">>,
       <<"K", "C">>,
       <<"L", "V">>,
       <<"L", "A", "C">>,
       <<"L", "A", "R">>,
       <<"M", "I", "A">>,
       <<"M", "I", "N">>,
       <<"N", "E">>,
       <<"N", "O">>,
       <<"N", "Y", "G">>,
       <<"N", "Y", "J">>,
       <<"P", "H", "I">>,
       <<"P", "I", "T">>,
       <<"S", "F">>,
       <<"T", "E", "N">>,
       <<"W", "A", "S">> >>

\* team_lists['nhl'] of filter_games_by_sport
team_list_nhl ==
    << <<"D", "u", "c", "k", "s">>,
       <<"C", "o", "y", "o", "t", "e", "s">>,
       <<"B", "r", "u", "i", "n", "s">>,
       <<"S", "a", "b", "r", "e", "s">>,
       <<"F", "l", "a", "m", "e", "s">>,
       <<"H", "u", "r", "r", "i", "c", "a", "n", "e", "s">>,
       <<"B", "l", "a", "c", "k", "h", "a", "w", "k", "s">>,
       <<"A", "v", "a", "l", "a", "n", "c", "h", "e">>,
       <<"B", "l", "u", "e", " ", "J", "a", "c", "k", "e", "t", "s">>,
       <<"S", "t", "a", "r", "s">>,
       <<"R", "e", "d", " ", "W", "i", "n", "g", "s">>,
       <<"O", "i", "l", "e", "r", "s">>,
       <<"P", "a", "n", "t", "h", "e", "r", "s">>,
       <<"K", "i", "n", "g", "s">>,
       <<"W", "i", "l", "d">>,
       <<"C", "a", "n", "a", "d", "i", "e", "n", "s">>,
       <<"P", "r", "e", "d", "a", "t", "o", "r", "s">>,
       <<"D", "e", "v", "i", "l", "s">>,
       <<"I", "s", "l", "a", "n", "d", "e", "r", "s">>,
       <<"R", "a", "n", "g", "e", "r", "s">>,
       <<"S", "e", "n", "a", "t", "o", "r", "s">>,
       <<"F", "l", "y", "e", "r", "s">>,
       <<"P", "e", "n", "g", "u", "i", "n", "s">>,
       <<"S", "h", "a", "r", "k", "s">>,
       <<"K", "r", "a", "k", "e", "n">>,
       <<"B", "l", "u", "e", "s">>,
       <<"L", "i", "g", "h", "t", "n", "i", "n", "g">>,
       <<"M", "a", "p", "l", "e", " ", "L", "e", "a", "f", "s">>,
       <<"C", "a", "n", "u", "c", "k", "s">>,
       <<"G", "o", "l", "d", "e", "n", " ", "K", "n", "i", "g", "h", "t", "s">>,
       <<"C", "a", "p", "i", "t", "a", "l", "s">>,
       <<"J", "e", "t", "s">>,
       <<"A", "N", "A">>,
       <<"A", "R", "I">>,
       <<"B", "O", "S">>,
       <<"B", "U", "F">>,
       <<"C", "G", "Y">>,
       <<"C", "A", "R">>,
       <<"C", "H", "I">>,
       <<"C", "O", "L">>,
       <<"C", "B", "J">>,
       <<"D", "A", "L">>,
       <<"D", "E", "T">>,
       <<"E", "D", "M">>,
       <<"F", "L", "A">>,
       <<"L", "A", "K">>,
       <<"M", "I", "N">>,
       <<"M", "T", "L">>,
       <<"N", "S", "H">>,
       <<"N", "J", "D">>,
       <<"N", "Y", "I">>,
       <<"N", "Y", "R">>,
       <<"O", "T", "T">>,
       <<"P", "H", "I">>,
       <<"P", "I", "T">>,
       <<"S", "J", "S">>,
       <<"S", "T", "L">>,
       <<"T", "B", "L">>,
       <<"T", "O", "R">>,
       <<"V", "A", "N">>,
       <<"V", "G", "K">>,
       <<"W", "S", "H">>,
       <<"W", "P", "G">> >>

\* the dict team_lists
SPORT_KEYS == {"mlb", "nba", "nfl", "nhl"}
team_lists ==
    [sport \in SPORT_KEYS |->
        CASE sport = "mlb" -> team_list_mlb
          [] sport = "nba" -> team_list_nba
          [] sport = "nfl" -> team_list_nfl
          [] sport = "nhl" -> team_list_nhl]

\* team.upper() for each team of a list
UpperAll(teams) == [i \in 1..Len(teams) |-> upper(teams[i])]

mlb_teams_upper == UpperAll(mlb_teams)
team_lists_upper == [sport \in SPORT_KEYS |-> UpperAll(team_lists[sport])]

\* title_upper = game['title'].upper();
\* any(team.upper() in title_upper for team in teams)
TitleHasTeam(title, teams_upper) ==
    LET title_upper == upper(title)
    IN  \E i \in 1..Len(teams_upper) : contains(title_upper, teams_upper[i])

\* the indexes of the games the filter loop keeps, in order
KeptIndexes(games, teams_upper) ==
    SelectSeq([i \in 1..Len(games) |-> i],
              LAMBDA i : TitleHasTeam(games[i].title, teams_upper))

filter_mlb_games(games) ==
    LET kept == KeptIndexes(games, mlb_teams_upper)
    IN  [k \in 1..Len(kept) |-> games[kept[k]]]

\* a variant of filter_games_by_sport that compares the title as it is
filter_games_by_sport_cased(games, sport) ==
    IF sport \notin DOMAIN team_lists THEN <<>>
    ELSE SelectSeq(games, LAMBDA game :
             \E i \in 1..Len(team_lists[sport]) :
                 contains(game.title, team_lists[sport][i]))

filter_games_by_sport(games, sport) ==
    IF sport \notin DOMAIN team_lists THEN <<>>
    ELSE LET kept == KeptIndexes(games, team_lists_upper[sport])
         IN  [k \in 1..Len(kept) |-> games[kept[k]]]

TOTAL == <<"T", "o", "t", "a", "l">>

\* the bets of the work items that pass a test, with the key they are sorted
\* by: keep[i] tells whether item i passes, key[i] is its key if it does
Keyed(work, keep, key) ==
    LET kept == SelectSeq([i \in 1..Len(work) |-> i], LAMBDA i : keep[i])
    IN  [k \in 1..Len(kept) |->
            [key |-> key[kept[k]], bet |-> work[kept[k]].dict]]

\* An analytics function gives [answer, work]: the list it returns, and the
\* bet dicts it has worked on as it leaves them.

big_bettor_alerts(games, limit) ==
    LET all_bets == extract_all_bets(games)
        sorted_bets ==
            sorted_reverse(Keyed(all_bets,
                [i \in 1..Len(all_bets) |-> all_bets[i].dict.market_type # TOTAL],
                [i \in 1..Len(all_bets) |->
                    parse_percentage(all_bets[i].dict.handle_pct)]))
    IN  [answer |-> Limit(sorted_bets, limit), work |-> all_bets]

\* odds >= 200 and handle_pct >= bets_pct + 30
IsSharpLongshot(bet) ==
    /\ parse_odds(bet.odds) >= 200
    /\ parse_percentage(bet.handle_pct) >= parse_percentage(bet.bets_pct) + 30

sharpest_longshot_bets(games, limit) ==
    LET all_bets == extract_all_bets(games)
        work == [i \in 1..Len(all_bets) |->
                    IF IsSharpLongshot(all_bets[i].dict)
                    THEN [cell |-> all_bets[i].cell,
                          dict |-> SetItem(all_bets[i].dict, "handle_vs_bets_diff",
                                      parse_percentage(all_bets[i].dict.handle_pct)
                                      - parse_percentage(all_bets[i].dict.bets_pct))]
                    ELSE all_bets[i]]
        sorted_longshots ==
            sorted_reverse(Keyed(work,
                [i \in 1..Len(work) |-> IsSharpLongshot(work[i].dict)],
                [i \in 1..Len(work) |->
                    IF IsSharpLongshot(work[i].dict)
                    THEN work[i].dict.handle_vs_bets_diff ELSE 0]))
    IN  [answer |-> Limit(sorted_longshots, limit), work |-> work]

get_rich_quick_scheme(games) ==
    LET all_bets == extract_all_bets(games)
        sorted_bets ==
            sorted_reverse(Keyed(all_bets,
                [i \in 1..Len(all_bets) |->
                    /\ parse_odds(all_bets[i].dict.odds) >= 400
                    /\ parse_percentage(all_bets[i].dict.handle_pct) >= 30],
                [i \in 1..Len(all_bets) |->
                    parse_percentage(all_bets[i].dict.handle_pct)]))
    IN  [answer |-> sorted_bets, work |-> all_bets]

\* a variant of IsSquare that also takes a score of 0
IsSquareOrEven(bet) ==
    parse_percentage(bet.bets_pct) - parse_percentage(bet.handle_pct) >= 0

\* square_score > 0
IsSquare(bet) ==
    parse_percentage(bet.bets_pct) - parse_percentage(bet.handle_pct) > 0

\* the loop of biggest_square_bets and of its by-sport variant, the sort and
\* the limit
SquareBets(all_bets, limit) ==
    LET work == [i \in 1..Len(all_bets) |->
                    IF IsSquare(all_bets[i].dict)
                    THEN [cell |-> all_bets[i].cell,
                          dict |-> SetItem(all_bets[i].dict, "square_score",
                                      parse_percentage(all_bets[i].dict.bets_pct)
                                      - parse_percentage(all_bets[i].dict.handle_pct))]
                    ELSE all_bets[i]]
        sorted_square ==
            sorted_reverse(Keyed(work,
                [i \in 1..Len(work) |-> IsSquare(work[i].dict)],
                [i \in 1..Len(work) |->
                    IF IsSquare(work[i].dict)
                    THEN work[i].dict.square_score ELSE 0]))
    IN  [answer |-> Limit(sorted_square, limit), work |-> work]

biggest_square_bets(games, limit) == SquareBets(extract_all_bets(games), limit)

\* the places of the work items, which are places in the filtered list, as
\* places in the list the filter was given
Rebase(work, kept) ==
    [i \in 1..Len(work) |->
        IF work[i].cell = None THEN work[i]
        ELSE [cell |-> Some(<<kept[work[i].cell[1][1]], work[i].cell[1][2],
                              work[i].cell[1][3]>>),
              dict |-> work[i].dict]]

SportIndexes(games, sport) ==
    IF sport \notin DOMAIN team_lists THEN <<>>
    ELSE KeptIndexes(games, team_lists_upper[sport])

big_bettor_alerts_by_sport(games, sport, limit) ==
    LET sport_games == filter_games_by_sport(games, sport)
        all_bets == extract_all_bets(sport_games)
        work == [i \in 1..Len(all_bets) |->
                    IF all_bets[i].dict.market_type # TOTAL
                    THEN [cell |-> all_bets[i].cell,
                          dict |-> SetItem(all_bets[i].dict, "handle_vs_bets_diff",
                                      parse_percentage(all_bets[i].dict.handle_pct)
                                      - parse_percentage(all_bets[i].dict.bets_pct))]
                    ELSE all_bets[i]]
        sorted_bets ==
            sorted_reverse(Keyed(work,
                [i \in 1..Len(work) |-> work[i].dict.market_type # TOTAL],
                [i \in 1..Len(work) |->
                    IF work[i].dict.market_type # TOTAL
                    THEN work[i].dict.handle_vs_bets_diff ELSE 0]))
    IN  IF sport_games = <<>> THEN [answer |-> <<>>, work |-> <<>>]
        ELSE [answer |-> Limit(sorted_bets, limit),
              work   |-> Rebase(work, SportIndexes(games, sport))]

biggest_square_bets_by_sport(games, sport, limit) ==
    LET sport_games == filter_games_by_sport(games, sport)
        r == SquareBets(extract_all_bets(sport_games), limit)
    IN  IF sport_games = <<>> THEN [answer |-> <<>>, work |-> <<>>]
        ELSE [answer |-> r.answer,
              work   |-> Rebase(r.work, SportIndexes(games, sport))]

\* the list of games once the bet dicts worked on are the objects they are:
\* a dict that is a stored bet is that bet as the function left it
RECURSIVE Commit(_, _)
Commit(games, work) ==
    IF work = <<>> THEN games
    ELSE IF Head(work).cell = None THEN Commit(games, Tail(work))
    ELSE LET place == Head(work).cell[1]
         IN  Commit([games EXCEPT ![place[1]].markets[place[2]].bets[place[3]]
                                     = Head(work).dict],
                    Tail(work))

(***************************************************************************)
(* The games the analytics are applied to: the cached list, as the scraper *)
(* stores it.                                                              *)
(***************************************************************************)
\* the game parse_game gives for a fragment with this title and these
\* markets, as scrape_betting_splits appends it
StoredGame(title, containers) ==
    WithDateRange(parse_game(GameSoup(title, <<"7">>, containers))[1], TODAY)

\* games of several sports, with one or two markets of one or two bets:
\* longshots, squares, totals, a bet with equal percentages, bets with the
\* percentages of another, odds that are no integer, a percentage over 100
GamePool ==
    << StoredGame(<<"M", "e", "t", "s", " ", "@", " ", "x">>,
        <<Market(<<"M", "o", "n", "e", "y", "l", "i", "n", "e">>,
                <<BetRow(<<"M", "e", "t", "s">>, <<"+", "2", "5", "0">>, <<"6", "5", "%">>, <<"2", "0", "%">>)>>)>>),
       StoredGame(<<"a", " ", "@", " ", "b">>,
        <<Market(<<"T", "o", "t", "a", "l">>,
                <<BetRow(<<"O", "v", "e", "r">>, <<"-", "1", "1", "0">>, <<"2", "0", "%">>, <<"6", "5", "%">>)>>)>>),
       StoredGame(<<"j", "e", "t", "s", " ", "@", " ", "K", "i", "n", "g", "s">>,
        <<Market(<<"M", "o", "n", "e", "y", "l", "i", "n", "e">>,
                <<BetRow(<<"j", "e", "t", "s">>, <<"+", "4", "0", "0">>, <<"4", "0", "%">>, <<"1", "0", "%">>),
                  BetRow(<<"K", "i", "n", "g", "s">>, MINUS_MOJIBAKE \o <<"5", "0", "0">>, <<"1", "0", "%">>, <<"4", "0", "%">>),
                  BetRow(<<"j", "e", "t", "s">>, <<"+", "2", "5", "0">>, <<"6", "5", "%">>, <<"2", "0", "%">>),
                  BetRow(<<"K", "i", "n", "g", "s">>, <<"-", "1", "5", "0">>, <<"2", "0", "%">>, <<"6", "5", "%">>),
                  BetRow(<<"j", "e", "t", "s">>, <<"+", "3", "0", "0">>, <<"5", "0", "%">>, <<"2", "0", "%">>)>>)>>),
       StoredGame(<<"I", "n", "d", "i", "a", "n", "s", " ", "@", " ", "a">>,
        <<Market(<<"S", "p", "r", "e", "a", "d">>,
                <<BetRow(<<"a">>, <<"+", "2", "0", "0">>, <<"5", "0", "%">>, <<"5", "0", "%">>)>>)>>),
       StoredGame(<<"W", "A", "R", "N", "E", "R", " ", "v", "s", " ", "a">>,
        <<Market(<<"M", "o", "n", "e", "y", "l", "i", "n", "e">>,
                <<BetRow(<<"a">>, <<"+", "2", "5", "0">>, <<"6", "5", "%">>, <<"2", "0", "%">>),
                  BetRow(<<"W", "A", "R", "N", "E", "R">>, <<"-", "1", "5", "0">>, <<"2", "0", "%">>, <<"6", "5", "%">>)>>)>>),
       StoredGame(<<"a", " ", "v", "s", " ", "b">>,
        <<Market(<<"T", "o", "t", "a", "l">>,
                <<BetRow(<<"U", "n", "d", "e", "r">>, <<"+", "4", "5", "0">>, <<"3", "0", "%">>, <<"5", "%">>)>>),
          Market(<<"M", "o", "n", "e", "y", "l", "i", "n", "e">>,
                <<BetRow(<<"b">>, <<"E", "V", "E", "N">>, <<"5", "%">>, <<"3", "0", "%">>),
                  BetRow(<<"a">>, <<"+", "2", "5", "0">>, <<"1", "5", "0", "%">>, <<"5", " ", "5", "%">>),
                  BetRow(<<"b">>, <<"-", "2", "5", "0">>, <<"7", "0", "%">>, <<"2", "0", "%">>)>>)>>) >>

\* the cached lists: up to MaxGames games of the pool, taken from one game
\* on by a fixed step (step 0: the same game over and over)
MaxGames == 4
GameSets ==
    {[i \in 1..n |-> GamePool[((start + (i - 1) * step) % Len(GamePool)) + 1]] :
        n \in 0..MaxGames, start \in 0..(Len(GamePool) - 1),
        step \in 0..(Len(GamePool) - 1)}

\* the sport keys of the queries: those of team_lists and one that is not
QuerySports == SPORT_KEYS \cup {"wnba"}

\* a fresh snapshot is cached and no request is in progress
QueryInit ==
    /\ now = 0
    /\ cached_games_data \in GameSets
    /\ cache_timestamp = Some(0)
    /\ installed = <<cached_games_data, cache_timestamp>>
    /\ ThreadsIdle

\* a function is applied to the cached list, which get_cached_or_fresh_data
\* has returned: r is what it gives
Answer(fn, sport, limit, r) ==
    /\ arg' = [fn |-> fn, sport |-> sport, limit |-> limit,
               games |-> cached_games_data]
    /\ result' = Some(r.answer)
    /\ cached_games_data' = Commit(cached_games_data, r.work)
    /\ UNCHANGED <<cache_timestamp, now, pc, kind, fresh_data, ret, call,
                   installed, scrapeVars>>

BigBettorAlerts ==
    Answer("big_bettor_alerts", "", DEFAULT_LIMIT,
           big_bettor_alerts(cached_games_data, DEFAULT_LIMIT))

SharpestLongshots ==
    Answer("sharpest_longshot_bets", "", DEFAULT_LIMIT,
           sharpest_longshot_bets(cached_games_data, DEFAULT_LIMIT))

GetRichQuickScheme ==
    Answer("get_rich_quick_scheme", "", DEFAULT_LIMIT,
           get_rich_quick_scheme(cached_games_data))

BiggestSquareBets ==
    Answer("biggest_square_bets", "", DEFAULT_LIMIT,
           biggest_square_bets(cached_games_data, DEFAULT_LIMIT))

BigBettorAlertsBySport ==
    \E sport \in SPORT_KEYS :
        Answer("big_bettor_alerts_by_sport", sport, DEFAULT_LIMIT,
               big_bettor_alerts_by_sport(cached_games_data, sport, DEFAULT_LIMIT))

BiggestSquareBetsBySport ==
    \E sport \in SPORT_KEYS :
        Answer("biggest_square_bets_by_sport", sport, DEFAULT_LIMIT,
               biggest_square_bets_by_sport(cached_games_data, sport, DEFAULT_LIMIT))

FilterBySport ==
    \E sport \in QuerySports :
        Answer("filter_games_by_sport", sport, DEFAULT_LIMIT,
               [answer |-> filter_games_by_sport(cached_games_data, sport),
                work   |-> <<>>])

FilterMLB ==
    Answer("filter_mlb_games", "", DEFAULT_LIMIT,
           [answer |-> filter_mlb_games(cached_games_data), work |-> <<>>])

(***************************************************************************)
(* The specifications.                                                     *)
(***************************************************************************)
\* no scrape run is followed step by step
ScrapeIdle ==
    /\ pair = Len(Pairs) + 1
    /\ page = 1
    /\ all_games_data = <<>>
    /\ last_fetch = None
    /\ returned = Some(<<>>)

\* no request is served
CacheIdle ==
    /\ now = 0
    /\ cached_games_data = <<>>
    /\ cache_timestamp = None
    /\ installed = <<<<>>, None>>
    /\ ThreadsIdle

\* the request threads, any interleaving of their statements
Next == (\E t \in Threads : Request(t, FALSE)) \/ Tick

\* the server before any request, no scrape run and no function followed on
\* their own
Init == CacheInit /\ ScrapeIdle /\ PureIdle

Spec == Init /\ [][Next]_vars

\* one request at a time
NextSeq == Request("t1", TRUE) \/ Tick

SpecSeq == Init /\ [][NextSeq]_vars

\* one scrape run, one request of a page at a time
ScrapeNext == FetchError \/ FetchPage \/ ScrapeReturn

InitScrape == ScrapeInit /\ CacheIdle /\ PureIdle

SpecScrape == InitScrape /\ [][ScrapeNext]_vars

\* one scrape run in which every fetch call returns: the run is not stopped
\* from outside, so its next step is taken
SpecScrapeFair == InitScrape /\ [][ScrapeNext]_vars /\ WF_vars(ScrapeNext)

\* one function applied to one argument
PureNext == CheckExpired \/ ParseGame \/ ParseBet \/ ScrapeRun

InitPure == PureInit /\ ScrapeIdle /\ CacheIdle

SpecPure == InitPure /\ [][PureNext]_vars

\* the analytics and the filters applied to the cached list, any number of
\* times in any order
QueryNext ==
    \/ BigBettorAlerts \/ SharpestLongshots \/ GetRichQuickScheme
    \/ BiggestSquareBets \/ BigBettorAlertsBySport \/ BiggestSquareBetsBySport
    \/ FilterBySport \/ FilterMLB

InitQuery == QueryInit /\ ScrapeIdle /\ PureIdle

SpecQuery == InitQuery /\ [][QueryNext]_vars

(***************************************************************************)
(* The properties.                                                         *)
(***************************************************************************)
\* thread t has finished a call of get_cached_or_fresh_data
Finished(t) == pc[t] = "idle" /\ ret[t].status # "none"

\* no captured_at, or an age strictly greater than 30 minutes
Over30Minutes(timestamp, clock) ==
    timestamp = None \/ clock - timestamp[1] > 30 * 60

\* C1, as stated: a GetOrRefresh request (requests served one at a time) runs
\* the scrape only when no snapshot is installed or the installed one is
\* expired; a snapshot that is installed and not expired is returned without a
\* scrape whatever games it holds, and games and captured_at are left as
\* they were.
C1_AsStated ==
    \A t \in Threads :
        Finished(t) /\ kind[t] = "get" =>
            LET c == call[t]
            IN  /\ c.scraped => Over30Minutes(c.timestamp, c.clock)
                /\ ~Over30Minutes(c.timestamp, c.clock) =>
                      /\ ret[t] = [status |-> "cached", games |-> c.games]
                      /\ cached_games_data = c.games
                      /\ cache_timestamp = c.timestamp

\* C1, amended: a GetOrRefresh request (requests served one at a time) runs
\* the scrape exactly when the cached list of games is empty or the snapshot
\* is expired (no captured_at, or older than 30 minutes); when the list is
\* not empty and the snapshot is not expired it returns that list without a
\* scrape and leaves games and captured_at as they were.
C1_GetRunsScrapeIffEmptyOrExpired ==
    \A t \in Threads :
        Finished(t) /\ kind[t] = "get" =>
            LET c == call[t]
                serve == c.games # <<>> /\ ~Over30Minutes(c.timestamp, c.clock)
            IN  /\ c.scraped <=> ~serve
                /\ serve =>
                      /\ ret[t] = [status |-> "cached", games |-> c.games]
                      /\ cached_games_data = c.games
                      /\ cache_timestamp = c.timestamp
                /\ ~serve => ret[t].status = "fresh"

\* a GetOrRefresh request was answered from a snapshot with games, no scrape
C1_Witness ==
    /\ Finished("t1")
    /\ kind["t1"] = "get"
    /\ ret["t1"].status = "cached"
    /\ ret["t1"].games # <<>>
    /\ ~call["t1"].scraped

\* C2, as stated: under any interleaving of GetOrRefresh and ForceRefresh
\* requests, the snapshot a request observes when it enters
\* get_cached_or_fresh_data is one that was installed in full (games together
\* with their captured_at): never a cleared snapshot while a refresh is
\* running, nor new games with the old or no captured_at.
C2_ObservedSnapshotIsInstalled ==
    \A t \in Threads :
        pc[t] = "L36" /\ kind[t] = "get" =>
            <<cached_games_data, cache_timestamp>> = installed

\* no two games of the list have the same (title, time, scraped_date_range)
KeysUnique(games) ==
    \A i, j \in 1..Len(games) :
        ( /\ games[i].title = games[j].title
          /\ games[i].time = games[j].time
          /\ games[i].scraped_date_range = games[j].scraped_date_range ) => i = j

\* the number of games of the list with this title, time and date range
CountOf(games, title, time, date_range) ==
    Cardinality({i \in 1..Len(games) :
                    /\ games[i].title = title
                    /\ games[i].time = time
                    /\ games[i].scraped_date_range = date_range})

\* C3: at every point of a scrape run, and in the list it returns, no two
\* accumulated games share (title, time, scraped_date_range); and every
\* parsable fragment of the page last fetched, however often the page or the
\* run has listed it, is in the accumulated list exactly once.
C3_KeysUnique ==
    /\ KeysUnique(all_games_data)
    /\ returned # None => KeysUnique(returned[1])
    /\ last_fetch # None /\ last_fetch[1].response.ok =>
          LET lf == last_fetch[1]
          IN  \A k \in 1..Len(lf.response.games) :
                  LET parsed == parse_game(lf.response.games[k])
                  IN  parsed # None =>
                         CountOf(all_games_data, parsed[1].title, parsed[1].time,
                                 Pairs[lf.pair].date_range) = 1

\* a page listed the same game twice, around a fragment that does not parse,
\* and one game was added
C3_Witness ==
    /\ last_fetch # None
    /\ last_fetch[1].response.ok
    /\ Len(last_fetch[1].response.games) = 3
    /\ last_fetch[1].before >= 1
    /\ Len(all_games_data) = last_fetch[1].before + 1

\* C4: the pages of a pair are requested in the order 1, 2, 3, ...; after the
\* request of page p the next request is page p+1 of the same pair if and only
\* if page p was fetched without error, held at least one fragment, added at
\* least one new game and p < 20, and otherwise page 1 of the next pair.  No
\* page beyond 20 is requested, and a page that failed or held no fragment
\* adds no game.
C4_Pagination ==
    /\ page \in 1..20
    /\ last_fetch = None => pair = 1 /\ page = 1
    /\ last_fetch # None =>
          LET lf    == last_fetch[1]
              found == Len(lf.response.games)
              new   == Len(all_games_data) - lf.before
              more  == lf.response.ok /\ found >= 1 /\ new >= 1 /\ lf.page < 20
          IN  /\ lf.page \in 1..20
              /\ new >= 0
              /\ new <= found
              /\ ~lf.response.ok => new = 0
              /\ IF more THEN pair = lf.pair /\ page = lf.page + 1
                 ELSE pair = lf.pair + 1 /\ page = 1

\* page 20 of a pair added a game and the run went on to the next pair
C4_Witness ==
    /\ last_fetch # None
    /\ last_fetch[1].page = 20
    /\ last_fetch[1].response.ok
    /\ Len(all_games_data) > last_fetch[1].before
    /\ pair = last_fetch[1].pair + 1
    /\ page = 1

\* one step of a scrape run, as C5 has it
C5_Step ==
    /\ last_fetch' # last_fetch =>
          LET lf == last_fetch'[1]
          IN  /\ lf.pair = pair /\ lf.page = page
              /\ Len(all_games_data') >= Len(all_games_data)
              /\ SubSeq(all_games_data', 1, Len(all_games_data)) = all_games_data
              /\ <<pair', page'>> \in {<<pair, page + 1>>, <<pair + 1, 1>>}
              /\ ~lf.response.ok =>
                    /\ all_games_data' = all_games_data
                    /\ pair' = pair + 1
                    /\ page' = 1
    /\ returned' # returned =>
          /\ pair > Len(Pairs)
          /\ returned' = Some(all_games_data)

\* C5: when the fetch of a page fails, the next request is page 1 of the next
\* pair (the failed page and the further pages of its pair are not requested),
\* the games accumulated so far are all kept, in every step of the run, and
\* the run returns the accumulated games once the last pair is done.
C5_FetchFailureEndsPairOnly == [][C5_Step]_vars

\* page 2 or later of a pair failed after games were accumulated, and pairs
\* are left to process
C5_Witness ==
    /\ last_fetch # None
    /\ ~last_fetch[1].response.ok
    /\ last_fetch[1].page > 1
    /\ last_fetch[1].before > 0
    /\ Len(all_games_data) = last_fetch[1].before
    /\ pair = last_fetch[1].pair + 1
    /\ pair <= Len(Pairs)
    /\ page = 1

\* C6: a ForceRefresh request always runs the scrape, whatever the age of
\* the snapshot; and when a call that ran the scrape finishes (requests served
\* one at a time), the snapshot holds exactly the games the call returns, with
\* a captured_at taken during the call, also when the run gave no game.  The
\* games any finished call returned are those of the current snapshot, never
\* those of a snapshot replaced before.
C6_RefreshInstallsRunResult ==
    \A t \in Threads :
        Finished(t) =>
            /\ kind[t] = "refresh" => call[t].scraped
            /\ call[t].scraped =>
                  /\ ret[t].status = "fresh"
                  /\ cached_games_data = ret[t].games
                  /\ cache_timestamp # None
                  /\ cache_timestamp[1] >= call[t].clock
                  /\ cache_timestamp[1] <= now
                  /\ installed = <<ret[t].games, cache_timestamp>>
            /\ ret[t].games = cached_games_data

\* a ForceRefresh on a fresh snapshot with games ran a scrape that gave no
\* game: the snapshot is empty
C6_Witness ==
    /\ Finished("t1")
    /\ kind["t1"] = "refresh"
    /\ call["t1"].games # <<>>
    /\ ~Over30Minutes(call["t1"].timestamp, call["t1"].clock)
    /\ ret["t1"] = [status |-> "fresh", games |-> <<>>]
    /\ cached_games_data = <<>>

\* C7: is_cache_expired answers True exactly when there is no captured_at or
\* now - captured_at is strictly greater than 30 minutes (1800 seconds), for
\* every captured_at and now.
C7_ExpiredIffOver30Minutes ==
    arg.fn = "is_cache_expired" /\ result # None =>
        result[1] = ( \/ arg.timestamp = None
                      \/ arg.clock - arg.timestamp[1] > 30 * 60 )

\* at an age of exactly 30:00 the snapshot is found fresh
C7_Witness ==
    /\ arg.fn = "is_cache_expired"
    /\ arg.timestamp # None
    /\ arg.clock - arg.timestamp[1] = 30 * 60
    /\ result = Some(FALSE)

\* the bet parse_bet has produced
BetProduced == arg.fn = "parse_bet" /\ result # None /\ result[1] # None

\* C8, as stated: the handle_pct and bets_pct of every bet produced, for any
\* bet row, both parse (parse_percentage) to a value between 0 and 100.
C8_AsStated ==
    BetProduced =>
        /\ parse_percentage(result[1][1].handle_pct) \in 0..100
        /\ parse_percentage(result[1][1].bets_pct) \in 0..100

\* C8, amended: the handle_pct and bets_pct of every bet produced are each
\* "0%" or a percentage token of the row, stored as found; each parses
\* (parse_percentage) to a value of 0 or more, and to a value between 0 and
\* 100 whenever every percentage token of the row does.  Text of the row that
\* is no percentage token is never stored, and does not keep the bet from
\* being produced.
C8_StoredPercentagesAreTokens ==
    BetProduced =>
        LET b      == result[1][1]
            tokens == Percentages(arg.soup.divs)
            stored == {b.handle_pct, b.bets_pct}
        IN  /\ \A p \in stored :
                  /\ p = <<"0", "%">> \/ \E i \in 1..Len(tokens) : tokens[i] = p
                  /\ parse_percentage(p) >= 0
            /\ (\A i \in 1..Len(tokens) : parse_percentage(tokens[i]) \in 0..100)
                  => \A p \in stored : parse_percentage(p) \in 0..100

\* a bet was produced with two tokens in range, from a row that also has text
\* that is no token
C8_Witness ==
    /\ BetProduced
    /\ result[1][1].handle_pct = <<"6", "5", "%">>
    /\ result[1][1].bets_pct = <<"7", "%">>
    /\ \E i \in 1..Len(arg.soup.divs) : arg.soup.divs[i].text = <<"x", "%">>

\* the fragment parse_game was applied to has its title, time and market
\* wrapper elements
GameElementsPresent ==
    /\ arg.soup.title_elem # None
    /\ arg.soup.title_elem[1].h5 # None
    /\ arg.soup.title_elem[1].span # None
    /\ arg.soup.wrap # None

\* C9: parse_game produces a game only when its (trimmed) title splits into
\* exactly two parts on the chosen delimiter: " @ " whenever the title has
\* it, " vs " otherwise.  Then away_team is the trimmed first part and
\* home_team the trimmed second, both non-empty.  A title with neither
\* delimiter, or with another number of parts, gives no game; with the other
\* elements of the fragment present, a title that splits in two gives one.
C9_TitleSplit ==
    arg.fn = "parse_game" /\ result # None =>
        IF ~GameElementsPresent THEN result[1] = None
        ELSE LET title == strip(arg.soup.title_elem[1].h5[1])
                 has   == contains(title, <<" ", "@", " ">>)
                          \/ contains(title, <<" ", "v", "s", " ">>)
                 delim == IF contains(title, <<" ", "@", " ">>)
                          THEN <<" ", "@", " ">> ELSE <<" ", "v", "s", " ">>
                 parts == split(title, delim)
             IN  IF has /\ Len(parts) = 2
                 THEN /\ result[1] # None
                      /\ result[1][1].title = title
                      /\ result[1][1].away_team = strip(parts[1])
                      /\ result[1][1].home_team = strip(parts[2])
                      /\ result[1][1].away_team # <<>>
                      /\ result[1][1].home_team # <<>>
                 ELSE result[1] = None

\* a game was produced from a title split on " vs ", with a team name of two
\* words
C9_Witness ==
    /\ arg.fn = "parse_game"
    /\ result # None
    /\ result[1] # None
    /\ ~contains(result[1][1].title, <<" ", "@", " ">>)
    /\ result[1][1].away_team = <<"a", " ", "b">>
    /\ result[1][1].home_team = <<"b">>

\* C10: for a bet row with a selection label and an odds element, parse_bet
\* produces a bet whose handle_pct is the first and bets_pct the second
\* percentage token of the row in document order, whatever tokens follow;
\* with fewer than two tokens both are "0%".  A row without the label or
\* without the odds element gives no bet.
C10_FirstTwoTokens ==
    arg.fn = "parse_bet" /\ result # None =>
        LET divs   == arg.soup.divs
            label  == \E i \in 1..Len(divs) : divs[i].class = "tb-slipline"
            tokens == Percentages(divs)
        IN  IF label /\ arg.soup.odd # None
            THEN /\ result[1] # None
                 /\ IF Len(tokens) >= 2
                    THEN /\ result[1][1].handle_pct = tokens[1]
                         /\ result[1][1].bets_pct = tokens[2]
                    ELSE /\ result[1][1].handle_pct = <<"0", "%">>
                         /\ result[1][1].bets_pct = <<"0", "%">>
            ELSE result[1] = None

\* a bet was produced from a row with three different tokens
C10_Witness ==
    /\ arg.fn = "parse_bet"
    /\ result # None
    /\ result[1] # None
    /\ LET tokens == Percentages(arg.soup.divs)
       IN  /\ Len(tokens) = 3
           /\ tokens[1] # tokens[2]
           /\ tokens[2] # tokens[3]
           /\ tokens[1] # tokens[3]
           /\ result[1][1].handle_pct = tokens[1]

\* the bets of a list of games, in the order of the games, the markets and
\* the bets, each with the title of its game and the label of its market
BetsOf(games) ==
    LET places == PlacesFrom(games, 1, 1, 1)
    IN  [i \in 1..Len(places) |->
            LET game   == games[places[i][1]]
                market == game.markets[places[i][2]]
            IN  [bet         |-> market.bets[places[i][3]],
                 game_title  |-> game.title,
                 market_type |-> market.type]]

\* the number of items of a sequence that pass a test
CountIf(seq, Test(_)) == Cardinality({i \in 1..Len(seq) : Test(seq[i])})

Min(a, b) == IF a < b THEN a ELSE b

\* every bet dict of a list of games has the four keys parse_bet gives it
OnlyStoredKeys(games) ==
    \A i \in 1..Len(BetsOf(games)) :
        DOMAIN BetsOf(games)[i].bet = {"team", "odds", "handle_pct", "bets_pct"}

\* one step of the analytics and the filters, as C11 has it
C11_Step ==
    /\ cached_games_data' = cached_games_data
    /\ OnlyStoredKeys(cached_games_data')
    /\ arg'.games = installed[1]

\* C11: an analytics function or a sport filter, run any number of times in
\* any order, leaves the games, markets and bets of the cached snapshot as
\* they are: no stored bet gets a derived field (handle_vs_bets_diff,
\* square_score) or a context field, and every query is given the snapshot
\* the first one was given.
C11_QueriesLeaveSnapshot == [][C11_Step]_vars

\* a by-sport query has returned bets that carry handle_vs_bets_diff, from a
\* snapshot with a square bet, and the stored bets have their four keys only
C11_Witness ==
    /\ arg.fn = "big_bettor_alerts_by_sport"
    /\ result # None
    /\ result[1] # <<>>
    /\ \A i \in 1..Len(result[1]) : "handle_vs_bets_diff" \in DOMAIN result[1][i]
    /\ \E i \in 1..Len(BetsOf(cached_games_data)) :
          LET bet == BetsOf(cached_games_data)[i].bet
          IN  parse_percentage(bet.bets_pct) > parse_percentage(bet.handle_pct)
    /\ OnlyStoredKeys(cached_games_data)

\* what identifies a bet of the list in an answer: its own four fields, the
\* title of its game and the label of its market
ViewOfStored(b) ==
    [team |-> b.bet.team, odds |-> b.bet.odds, handle_pct |-> b.bet.handle_pct,
     bets_pct |-> b.bet.bets_pct, game_title |-> b.game_title,
     market_type |-> b.market_type]

ViewOfAnswered(d) ==
    [team |-> d.team, odds |-> d.odds, handle_pct |-> d.handle_pct,
     bets_pct |-> d.bets_pct, game_title |-> d.game_title,
     market_type |-> d.market_type]

\* the bets of the games that pass a test, each with the key it is ranked by
Candidates(games, Keep(_), Key(_)) ==
    LET kept == SelectSeq(BetsOf(games), LAMBDA b : Keep(ViewOfStored(b)))
    IN  [i \in 1..Len(kept) |->
            [key |-> Key(ViewOfStored(kept[i])), view |-> ViewOfStored(kept[i])]]

\* the bets of an answer with the key they are ranked by
Ranked(answer, Key(_)) ==
    [i \in 1..Len(answer) |->
        [key |-> Key(ViewOfAnswered(answer[i])), view |-> ViewOfAnswered(answer[i])]]

\* ranked holds min(limit, n) of the n candidates, none more often than the
\* candidates do, and for every key as many of the bets with that key or a
\* greater one as the limit allows: no candidate left out has a greater key
\* than one that is in
IsTopOf(ranked, candidates, limit) ==
    /\ Len(ranked) = Min(limit, Len(candidates))
    /\ \A i \in 1..Len(ranked) :
          /\ \E j \in 1..Len(candidates) : candidates[j] = ranked[i]
          /\ CountIf(ranked, LAMBDA x : x = ranked[i])
                <= CountIf(candidates, LAMBDA x : x = ranked[i])
    /\ \A j \in 1..Len(candidates) :
          CountIf(ranked, LAMBDA x : x.key >= candidates[j].key)
             >= Min(limit, CountIf(candidates, LAMBDA x : x.key >= candidates[j].key))

\* the keys never increase along the sequence
Descending(ranked) ==
    \A i, j \in 1..Len(ranked) : i < j => ranked[i].key >= ranked[j].key

\* the keys decrease from each item to the next
StrictlyDescending(ranked) ==
    \A i, j \in 1..Len(ranked) : i < j => ranked[i].key > ranked[j].key

\* bets_pct - handle_pct of a bet
SquareScore(v) == parse_percentage(v.bets_pct) - parse_percentage(v.handle_pct)

\* C12, as stated: for every game set BiggestSquareBets returns only bets
\* with bets_pct - handle_pct > 0, at most 7 of them, in strictly descending
\* order of bets_pct - handle_pct.
C12_AsStated ==
    arg.fn = "biggest_square_bets" =>
        LET ranked == Ranked(result[1], SquareScore)
        IN  /\ Len(ranked) <= 7
            /\ \A i \in 1..Len(ranked) : ranked[i].key > 0
            /\ StrictlyDescending(ranked)

\* C12, amended: for every game set BiggestSquareBets returns only bets with
\* bets_pct - handle_pct > 0, each carrying that difference as square_score:
\* min(7, n) of the n such bets, in descending order of the difference where
\* bets with equal differences may follow each other, and no such bet left
\* out has a greater difference than a returned one.  A bet with handle_pct
\* greater than bets_pct is never returned.
C12_SquareBetsDescending ==
    arg.fn = "biggest_square_bets" =>
        LET ranked == Ranked(result[1], SquareScore)
        IN  /\ Len(ranked) <= 7
            /\ \A i \in 1..Len(ranked) :
                  /\ ranked[i].key > 0
                  /\ result[1][i].square_score = ranked[i].key
            /\ Descending(ranked)
            /\ IsTopOf(ranked,
                       Candidates(arg.games, LAMBDA v : SquareScore(v) > 0, SquareScore),
                       7)

\* seven square bets were returned and an eighth left out, from games that
\* also hold a bet with more handle than bets; two returned bets have the
\* same difference
C12_Witness ==
    /\ arg.fn = "biggest_square_bets"
    /\ Len(result[1]) = 7
    /\ Len(Candidates(arg.games, LAMBDA v : SquareScore(v) > 0, SquareScore)) > 7
    /\ \E i \in 1..Len(BetsOf(arg.games)) :
          SquareScore(ViewOfStored(BetsOf(arg.games)[i])) < 0
    /\ result[1][1].square_score = result[1][2].square_score
    /\ result[1][1].square_score > result[1][7].square_score

\* handle_pct - bets_pct of a bet
HandleOverBets(v) == parse_percentage(v.handle_pct) - parse_percentage(v.bets_pct)

\* the odds text is a signed integer of 200 or more
LongshotOdds(v) ==
    LET t == strip(v.odds)
    IN  /\ t # <<>>
        /\ IF Head(t) \in {"+", "-"} THEN isdigit(Tail(t)) ELSE isdigit(t)
        /\ Head(t) # "-"
        /\ int(IF Head(t) = "+" THEN Tail(t) ELSE t) >= 200

\* C13: for every game set, every bet SharpestLongshots returns has odds that
\* read as a signed integer of 200 or more (odds that are no signed integer
\* never qualify) and handle_pct - bets_pct >= 30; the result is in
\* descending order of handle_pct - bets_pct, holds at most 7 bets, namely
\* min(7, n) of the n qualifying ones, and no qualifying bet left out has a
\* greater difference than a returned one.
C13_SharpestLongshots ==
    arg.fn = "sharpest_longshot_bets" =>
        LET ranked == Ranked(result[1], HandleOverBets)
        IN  /\ Len(ranked) <= 7
            /\ \A i \in 1..Len(ranked) :
                  /\ LongshotOdds(ranked[i].view)
                  /\ ranked[i].key >= 30
                  /\ result[1][i].handle_vs_bets_diff = ranked[i].key
            /\ Descending(ranked)
            /\ IsTopOf(ranked,
                       Candidates(arg.games,
                                  LAMBDA v : LongshotOdds(v) /\ HandleOverBets(v) >= 30,
                                  HandleOverBets),
                       7)

\* seven longshots were returned and an eighth left out, from games that also
\* have a bet at -250 with 50 points more handle than bets and a bet whose
\* odds are no integer
C13_Witness ==
    /\ arg.fn = "sharpest_longshot_bets"
    /\ Len(result[1]) = 7
    /\ Len(Candidates(arg.games,
                      LAMBDA v : LongshotOdds(v) /\ HandleOverBets(v) >= 30,
                      HandleOverBets)) > 7
    /\ \E i \in 1..Len(BetsOf(arg.games)) :
          /\ BetsOf(arg.games)[i].bet.odds = <<"-", "2", "5", "0">>
          /\ HandleOverBets(ViewOfStored(BetsOf(arg.games)[i])) >= 30
    /\ \E i \in 1..Len(BetsOf(arg.games)) :
          BetsOf(arg.games)[i].bet.odds = <<"E", "V", "E", "N">>

\* C14: for every game set BigBettorAlerts returns min(7, n) of the n bets
\* whose market_type is not "Total", ordered by handle_pct descending: no
\* returned bet is of a "Total" market, handle_pct never increases along the
\* result, and no such bet left out has a greater handle_pct than a returned
\* one.
C14_BigBettorAlerts ==
    arg.fn = "big_bettor_alerts" =>
        LET Handle(v) == parse_percentage(v.handle_pct)
            ranked == Ranked(result[1], Handle)
        IN  /\ \A i \in 1..Len(ranked) :
                  ranked[i].view.market_type # <<"T", "o", "t", "a", "l">>
            /\ Descending(ranked)
            /\ IsTopOf(ranked,
                       Candidates(arg.games,
                                  LAMBDA v : v.market_type # <<"T", "o", "t", "a", "l">>,
                                  Handle),
                       7)

\* seven bets were returned and others left out, from games that have a
\* "Total" market whose bet has more handle than the last bet returned
C14_Witness ==
    /\ arg.fn = "big_bettor_alerts"
    /\ Len(result[1]) = 7
    /\ \E i \in 1..Len(BetsOf(arg.games)) :
          LET b == BetsOf(arg.games)[i]
          IN  /\ b.market_type = <<"T", "o", "t", "a", "l">>
              /\ parse_percentage(b.bet.handle_pct)
                    > parse_percentage(result[1][7].handle_pct)
    /\ CountIf(BetsOf(arg.games),
               LAMBDA b : b.market_type # <<"T", "o", "t", "a", "l">>) > 7

\* two characters are the same letter, whatever their case, or the same
\* character
SameIgnoringCase(c, d) == UpperChar(c) = UpperChar(d)

\* the token is in the title at some position, case ignored
HasToken(title, token) ==
    \E p \in 0..(Len(title) - Len(token)) :
        \A k \in 1..Len(token) : SameIgnoringCase(title[p + k], token[k])

\* the title has a roster token of the sport
OnRoster(title, sport) ==
    LET roster == CASE sport = "mlb" -> team_list_mlb
                    [] sport = "nba" -> team_list_nba
                    [] sport = "nfl" -> team_list_nfl
                    [] sport = "nhl" -> team_list_nhl
    IN  \E i \in 1..Len(roster) : HasToken(title, roster[i])

\* C15: FilterBySport(games, sportKey) with sportKey one of mlb, nba, nfl,
\* nhl returns, in input order, exactly the games whose title has, as a
\* substring and whatever the case, at least one roster token of that sport;
\* with any other sportKey it returns the empty sequence.
C15_FilterBySport ==
    arg.fn = "filter_games_by_sport" =>
        IF arg.sport \in {"mlb", "nba", "nfl", "nhl"}
        THEN result[1] = SelectSeq(arg.games, LAMBDA game : OnRoster(game.title, arg.sport))
        ELSE result[1] = <<>>

\* the nfl filter kept a game whose title has a token in lower case ("jets")
\* and dropped another game
C15_Witness ==
    /\ arg.fn = "filter_games_by_sport"
    /\ arg.sport = "nfl"
    /\ \E i \in 1..Len(result[1]) :
          result[1][i].title = <<"j", "e", "t", "s", " ", "@", " ", "K", "i", "n", "g", "s">>
    /\ Len(result[1]) >= 1
    /\ Len(result[1]) < Len(arg.games)

\* one pair paginated on its own, with its own duplicate check: the passes
\* of the while loop from page pg on, until the loop is left
RECURSIVE PairAlone(_, _, _, _)
PairAlone(pair_idx, pg, games, source) ==
    LET st == Iteration(pair_idx, pg, games, source[pair_idx, pg])
    IN  IF st.pair = pair_idx
        THEN PairAlone(pair_idx, st.page, st.all_games_data, source)
        ELSE st.all_games_data

\* the results of the pairs from pair_idx on, each paginated on its own, one
\* after the other
RECURSIVE AllAlone(_, _)
AllAlone(pair_idx, source) ==
    IF pair_idx > Len(Pairs) THEN <<>>
    ELSE PairAlone(pair_idx, 1, <<>>, source) \o AllAlone(pair_idx + 1, source)

\* the games of a list, the first of each (title, time, scraped_date_range)
RECURSIVE FirstOfEachKey(_, _)
FirstOfEachKey(games, kept) ==
    IF games = <<>> THEN kept
    ELSE FirstOfEachKey(Tail(games),
             IF \E i \in 1..Len(kept) :
                   /\ kept[i].title = Head(games).title
                   /\ kept[i].time = Head(games).time
                   /\ kept[i].scraped_date_range = Head(games).scraped_date_range
             THEN kept ELSE Append(kept, Head(games)))

\* the pairs processed independently, the duplicates removed from the merged
\* result afterwards
MergedRun(source) == FirstOfEachKey(AllAlone(1, source), <<>>)

SetOf(seq) == {seq[i] : i \in 1..Len(seq)}

\* the keys of the games the source lists for a pair, on any page
KeysListed(source, pair_idx) ==
    {<<g.title, g.time, Pairs[pair_idx].date_range>> :
        g \in UNION {{parse_game(source[pair_idx, pg].games[k])[1] :
                        k \in {k \in 1..Len(source[pair_idx, pg].games) :
                                  parse_game(source[pair_idx, pg].games[k]) # None}} :
                     pg \in 1..MAX_PAGE}}

\* no game is listed under two pairs with the same (title, time, date range)
NoGameUnderTwoPairs(source) ==
    \A p, q \in 1..Len(Pairs) :
        p # q => KeysListed(source, p) \cap KeysListed(source, q) = {}

\* C16, as stated: processing the pairs independently of each other, each
\* with its own duplicate check, and removing the duplicates from the merged
\* result afterwards gives the same set of games as the sequential run, for
\* every behaviour of the source, also when a game is listed under two
\* sports.
C16_AsStated ==
    arg.fn = "scrape_betting_splits" /\ result # None =>
        SetOf(MergedRun(SourceOf(arg.listed))) = SetOf(result[1])

\* C16, amended: the merged result of the independently processed pairs has
\* every game of the sequential run and no two games with the same key; it is
\* the same set of games when the source lists no game under two pairs with
\* the same (title, time, date range).  When it does, the merged result can
\* hold games the sequential run never fetches.
C16_MergedRunHasSequentialGames ==
    arg.fn = "scrape_betting_splits" /\ result # None =>
        LET source == SourceOf(arg.listed)
            merged == MergedRun(source)
        IN  /\ SetOf(result[1]) \subseteq SetOf(merged)
            /\ KeysUnique(merged)
            /\ NoGameUnderTwoPairs(source) => SetOf(merged) = SetOf(result[1])

\* both pairs list games and none is listed under both: the run returned the
\* two games, one from each pair
C16_Witness ==
    /\ arg.fn = "scrape_betting_splits"
    /\ result # None
    /\ NoGameUnderTwoPairs(SourceOf(arg.listed))
    /\ Len(result[1]) = 2
    /\ arg.listed[1, 1].games # <<>>
    /\ arg.listed[3, 1].games # <<>>

\* C17, as stated: when two concurrent GetOrRefresh calls have both run the
\* scrape and finished, each having stored its result, the snapshot holds the
\* games and the captured_at of the call that wrote last: what that call
\* installed.
C17_LastWriterWins ==
    (\A t \in Threads :
        pc[t] = "idle" /\ kind[t] = "get" /\ ret[t].status = "fresh")
    => <<cached_games_data, cache_timestamp>> = installed

\* the pairs of the configuration: every sport but all_sports, each with its
\* own date ranges, in order
ConfiguredPairs ==
    /\ \A i \in 1..Len(Pairs) :
          /\ Pairs[i].sport_name # "all_sports"
          /\ \E k \in 1..Len(sport_configs) :
                /\ sport_configs[k].name = Pairs[i].sport_name
                /\ sport_configs[k].id = Pairs[i].sport_id
                /\ \E d \in 1..Len(sport_configs[k].date_ranges) :
                      sport_configs[k].date_ranges[d] = Pairs[i].date_range
          /\ Pairs[i].sport_name
                \in {"mls", "premier_league", "champions_league", "europa_league"}
                => Pairs[i].date_range = "today"
    /\ \A i, j \in 1..Len(Pairs) : Pairs[i] = Pairs[j] => i = j
    /\ \A k \in 1..Len(sport_configs) :
          sport_configs[k].name # "all_sports" =>
              \A d \in 1..Len(sport_configs[k].date_ranges) :
                  \E i \in 1..Len(Pairs) :
                      /\ Pairs[i].sport_name = sport_configs[k].name
                      /\ Pairs[i].date_range = sport_configs[k].date_ranges[d]

\* one step of a scrape run, as C18 has it: the pairs are taken one after
\* the other, a pair is left only by a request of one of its pages, and the
\* request made is for a configured pair
C18_Step ==
    /\ pair' \in {pair, pair + 1}
    /\ pair' = pair + 1 =>
          /\ last_fetch' # None
          /\ last_fetch'[1].pair = pair
          /\ pair \in 1..Len(Pairs)
    /\ returned' # None => pair' = Len(Pairs) + 1

\* C18: one scrape run, in which every fetch call returns, always terminates
\* and returns a result, whatever the source answers; it does so after it
\* has visited every configured (sport, date range) pair once, in order,
\* never the all_sports entry and never tomorrow for a today-only sport.
C18_RunTerminates ==
    /\ [](ConfiguredPairs /\ pair \in 1..(Len(Pairs) + 1))
    /\ [][C18_Step]_vars
    /\ <>(returned # None)

\* the run has returned games after the last pair
C18_Witness ==
    /\ returned # None
    /\ returned[1] # <<>>
    /\ pair = Len(Pairs) + 1
    /\ last_fetch # None
    /\ last_fetch[1].pair = Len(Pairs)

\* C19, as stated: under any interleaving of a GetOrRefresh call with a
\* concurrent ForceRefresh, GetOrRefresh never fails with an error: when it
\* reads captured_at again to compute the cache age, after it has found it
\* set, captured_at is still set.
C19_GetNeverFails ==
    \A t \in Threads :
        kind[t] = "get" =>
            /\ ret[t].status # "TypeError"
            /\ pc[t] \in {"L29", "L37"} => cache_timestamp # None

====
